---- MODULE Spec2Model ----
(***************************************************************************)
(* Rollout pipeline of imitation (imitation/util/rollout.py):              *)
(* make_sample_until, generate_trajectories over a vectorized environment, *)
(* flatten_trajectories and generate_transitions; saving and loading of    *)
(* trajectories (rollout.py, data.py) over a file system whose writes can  *)
(* be interrupted; redirect_to_files (multi.py); and the batch iterator of *)
(* bc.py.  The variable entry says which public function a behaviour       *)
(* follows.                                                                *)
(*                                                                         *)
(* Observations, actions, rewards and info records are symbolic values     *)
(* that name where they were produced, so that any misplacement of a value *)
(* (wrong slot, wrong step, reset observation instead of the terminal one) *)
(* is visible.  The environment decides nondeterministically, per slot and *)
(* per batched step, whether the episode ends.                             *)
(***************************************************************************)
EXTENDS Integers, Sequences, FiniteSets, TLC

\* ------------------------------------------------------------------ bounds
NumEnvs == 4
MaxEpLen == 4
MaxN == 3
MaxTrajs == 3
MaxFiles == 3
MaxMtime == 2
MaxBatches == 3
MaxCalls == 4
MaxHistory == 2

Slots == 0 .. (NumEnvs - 1)

\* Optional[int]: None is the empty tuple, a supplied value n is <<n>>.
None == << >>
Some(n) == << n >>
IsNone(x) == x = << >>

\* ------------------------------------------------- symbolic data values
\* The observation of slot s in its e-th episode after t steps; terminal is
\* TRUE for the last observation of an episode.
Obs(s, e, t, term) == [slot |-> s, ep |-> e, t |-> t, terminal |-> term]

\* The action the policy returns for an observation.
get_action(obs) == [policy_on |-> obs]

\* The reward the environment pays for the t-th step of episode e of slot s.
Rew(s, e, t) == [reward_of |-> << s, e, t >>]

\* The info record of a step: the terminal observation is present exactly
\* when the step ended the episode.
Info(s, e, t, done) ==
  IF done
  THEN [step_of |-> << s, e, t >>, terminal_observation |-> Obs(s, e, t, TRUE)]
  ELSE [step_of |-> << s, e, t >>]

VARIABLES
  pc,                   \* position in the program
  entry,                \* which public function was called
  n_timesteps,          \* Optional[int] argument
  n_episodes,           \* Optional[int] argument
  truncate,             \* generate_transitions(truncate=...)
  sample_until,         \* the termination predicate in use
  raised,               \* the exception that ended the call, or "none"
  venv,                 \* per slot: episode number and steps taken in it
  venv_calls,           \* number of reset and step calls made on the venv
  calls,                \* the calls generate_trajectories made, in order
  obs_batch,            \* observations returned by the last reset / step
  act_batch,            \* actions of the last batched step
  rew_batch,            \* rewards of the last batched step
  done_batch,           \* done flags of the last batched step
  info_batch,           \* info records of the last batched step
  partial_trajectories, \* _TrajectoryAccumulator.partial_trajectories
  trajectories,         \* completed trajectories
  transitions,          \* the flattened batch
  fs,                   \* file system: path -> file (present or not, content)
  path,                 \* the path argument of save / load
  data_trajs,           \* the trajectories argument of data.save
  loaded,               \* what load / load_trajectories returned
  max_n_files,          \* Optional[int] argument of load_trajectories
  mtime,                \* modification time of the files of the directory
  ro_paths,             \* the paths load_trajectories reads, in order
  stdout_path,          \* Optional[str] argument of redirect_to_files
  stderr_path,          \* Optional[str] argument of redirect_to_files
  sys_stdout,           \* the stream sys.stdout is bound to
  sys_stderr,           \* the stream sys.stderr is bound to
  temp,                 \* the streams the redirect contexts saved
  streams,              \* what was written to each stream, in order
  n_epochs,             \* Optional[int] argument of the batch iterator
  n_batches,            \* Optional[int] argument of the batch iterator
  use_epochs,           \* EpochOrBatchIteratorWithProgress.use_epochs
  loader_len,           \* number of batches in one pass of the data loader
  pos,                  \* batches taken from the data loader in this pass
  epoch_num,            \* epoch_num of __iter__
  batch_num,            \* batch_num of __iter__
  epoch_end_calls,      \* number of calls of on_epoch_end
  n_calls,              \* number of calls made on a _TrajectoryAccumulator
  last_call,            \* the last call made on it: method and idx
  added_since,          \* per idx: the records handed to add_step since the
                        \* last finish_trajectory, and how many of those
  returned_traj,        \* what the last finish_trajectory returned
  ep_history,           \* RewardVecEnvWrapper(ep_history=...)
  episode_rewards,      \* RewardVecEnvWrapper.episode_rewards
  _cumulative_rew,      \* per environment: the rewards summed up so far
  _old_obs,             \* RewardVecEnvWrapper._old_obs
  _actions,             \* RewardVecEnvWrapper._actions
  _step_counter,        \* RewardVecEnvWrapper._step_counter
  reward_fn_args,       \* the arguments of the last call of reward_fn
  finished_episodes,    \* the episodes the inner environment ended, in order
  save_pc,              \* per concurrent data.save call: its position
  save_path,            \* per concurrent data.save call: its path argument
  save_trajs,           \* per concurrent data.save call: its trajectories
  written,              \* per call: chunks written to its temporary file
  unlinked              \* per call: its open file is no longer at its path

\* The variables of the rollout pipeline, and the variables of the rest.
rolloutVars == << n_timesteps, n_episodes, truncate, sample_until, venv,
                  venv_calls, calls, obs_batch, act_batch, rew_batch,
                  done_batch, info_batch, partial_trajectories, trajectories,
                  transitions >>

persistVars == << fs, path, data_trajs, loaded, max_n_files, mtime,
                 ro_paths >>

redirectVars == << stdout_path, stderr_path, sys_stdout, sys_stderr, temp,
                   streams >>

iterVars == << n_epochs, n_batches, use_epochs, loader_len, pos, epoch_num,
               batch_num, epoch_end_calls >>

accumVars == << n_calls, last_call, added_since, returned_traj >>

wrapperVars == << ep_history, episode_rewards, _cumulative_rew, _old_obs,
                  _actions, _step_counter, reward_fn_args, finished_episodes >>

saversVars == << save_pc, save_path, save_trajs, written, unlinked >>

extraVars == << accumVars, wrapperVars, saversVars >>

otherVars == << persistVars, redirectVars, iterVars, extraVars >>

vars == << pc, entry, raised, rolloutVars, otherVars >>

\* ------------------------------------------------------ helper operators
RECURSIVE SumSeq(_)
SumSeq(s) == IF s = << >> THEN 0 ELSE Head(s) + SumSeq(Tail(s))

Min2(a, b) == IF a < b THEN a ELSE b
Max2(a, b) == IF a > b THEN a ELSE b

\* Variant: keeps the last n entries, arr[-n:].
SliceTo_Last(arr, n) ==
  SubSeq(arr, Max2(Len(arr) - n, 0) + 1, Len(arr))

\* Python's arr[:n] on a sequence.
SliceTo(arr, n) ==
  IF n >= 0 THEN SubSeq(arr, 1, Min2(n, Len(arr)))
  ELSE SubSeq(arr, 1, Max2(Len(arr) + n, 0))

\* ------------------------------------------------- termination policies
\* Variant: stops only once more than n episodes are complete.
min_episodes_Strict(n, trajs) == Len(trajs) > n

min_episodes(n, trajs) == Len(trajs) >= n

\* Variant: counts observations instead of steps.
min_timesteps_CountObs(n, trajs) ==
  SumSeq([i \in 1 .. Len(trajs) |-> Len(trajs[i].obs)]) >= n

min_timesteps(n, trajs) ==
  SumSeq([i \in 1 .. Len(trajs) |-> Len(trajs[i].obs) - 1]) >= n

NoPredicate == [kind |-> "unset", n |-> 0]

\* Variant: the loop goes on until the predicate holds for n + 1.
SampleUntil_OneMore(p, trajs) ==
  IF p.kind = "min_timesteps" THEN min_timesteps(p.n + 1, trajs)
  ELSE min_episodes(p.n + 1, trajs)

\* sample_until(trajectories), for the predicate p.
SampleUntil(p, trajs) ==
  IF p.kind = "min_timesteps" THEN min_timesteps(p.n, trajs)
  ELSE min_episodes(p.n, trajs)

\* Variant: n_timesteps wins when both arguments are supplied.
make_sample_until_PreferTimesteps(nt, ne) ==
  IF ~IsNone(nt)
  THEN IF nt[1] > 0
       THEN [raised |-> "none", value |-> [kind |-> "min_timesteps", n |-> nt[1]]]
       ELSE [raised |-> "AssertionError", value |-> NoPredicate]
  ELSE IF ~IsNone(ne)
  THEN IF ne[1] > 0
       THEN [raised |-> "none", value |-> [kind |-> "min_episodes", n |-> ne[1]]]
       ELSE [raised |-> "AssertionError", value |-> NoPredicate]
  ELSE [raised |-> "ValueError", value |-> NoPredicate]

\* make_sample_until: the exception it raises, or the predicate it returns.
make_sample_until(nt, ne) ==
  IF ~IsNone(nt) /\ ~IsNone(ne)
  THEN [raised |-> "ValueError", value |-> NoPredicate]
  ELSE IF ~IsNone(nt)
  THEN IF nt[1] > 0
       THEN [raised |-> "none", value |-> [kind |-> "min_timesteps", n |-> nt[1]]]
       ELSE [raised |-> "AssertionError", value |-> NoPredicate]
  ELSE IF ~IsNone(ne)
  THEN IF ne[1] > 0
       THEN [raised |-> "none", value |-> [kind |-> "min_episodes", n |-> ne[1]]]
       ELSE [raised |-> "AssertionError", value |-> NoPredicate]
  ELSE [raised |-> "ValueError", value |-> NoPredicate]

\* ------------------------------------------------ _TrajectoryAccumulator
EmptyAccum == [s \in Slots |-> << >>]

\* Variant: one list serves every idx, the record is appended for all.
add_step_SharedList(accum, idx, d) ==
  [s \in DOMAIN accum |-> Append(accum[s], d)]

\* add_step: appends the record to the list of idx.
add_step(accum, idx, d) ==
  [accum EXCEPT ![idx] = Append(@, d)]

\* The values stored under key in the pending records, in append order.
Stacked(part_dicts, key) ==
  LET has == SelectSeq(part_dicts, LAMBDA d : key \in DOMAIN d)
  IN  [i \in 1 .. Len(has) |-> has[i][key]]

\* Variant: finishing one slot drops the pending records of every slot.
finish_trajectory_ClearsAll(accum, idx) ==
  LET part_dicts == accum[idx]
      keys == UNION {DOMAIN part_dicts[i] : i \in 1 .. Len(part_dicts)}
  IN  [accum |-> [s \in DOMAIN accum |-> << >>],
       raised |-> IF keys = {"act", "obs", "rew", "infos"}
                  THEN "none" ELSE "TypeError",
       traj |-> [act |-> Stacked(part_dicts, "act"),
                 obs |-> Stacked(part_dicts, "obs"),
                 rew |-> Stacked(part_dicts, "rew"),
                 infos |-> Stacked(part_dicts, "infos")]]

\* Variant: the slot's records are read but not popped.
finish_trajectory_KeepsPending(accum, idx) ==
  LET part_dicts == accum[idx]
      keys == UNION {DOMAIN part_dicts[i] : i \in 1 .. Len(part_dicts)}
  IN  [accum |-> accum,
       raised |-> IF keys = {"act", "obs", "rew", "infos"}
                  THEN "none" ELSE "TypeError",
       traj |-> [act |-> Stacked(part_dicts, "act"),
                 obs |-> Stacked(part_dicts, "obs"),
                 rew |-> Stacked(part_dicts, "rew"),
                 infos |-> Stacked(part_dicts, "infos")]]

\* finish_trajectory: pops the slot's records and stacks them per key.
\* Trajectory(**out_dict_stacked) needs all four fields.
finish_trajectory(accum, idx) ==
  LET part_dicts == accum[idx]
      keys == UNION {DOMAIN part_dicts[i] : i \in 1 .. Len(part_dicts)}
  IN  [accum |-> [accum EXCEPT ![idx] = << >>],
       raised |-> IF keys = {"act", "obs", "rew", "infos"}
                  THEN "none" ELSE "TypeError",
       traj |-> [act |-> Stacked(part_dicts, "act"),
                 obs |-> Stacked(part_dicts, "obs"),
                 rew |-> Stacked(part_dicts, "rew"),
                 infos |-> Stacked(part_dicts, "infos")]]

\* ------------------------------------------------- vectorized environment
\* The number of the episode a slot is in after a reset: an episode in which
\* steps were taken is given up for the next one.
EpisodeAfterReset(e) == IF e.t > 0 THEN e.ep + 1 ELSE e.ep

\* venv.reset(): every slot starts an episode; returns its first observation.
VenvReset(v) ==
  [venv |-> [s \in Slots |-> [ep |-> EpisodeAfterReset(v[s]), t |-> 0]],
   obs |-> [s \in Slots |-> Obs(s, EpisodeAfterReset(v[s]), 0, FALSE)]]

\* venv.step(actions) where done says which slots end their episode.  A slot
\* that is done auto-resets: the observation returned for it is the first
\* observation of its next episode, and the terminal observation of the
\* finished episode is in the info record.
VenvStep(v, done) ==
  [venv |-> [s \in Slots |->
               IF done[s] THEN [ep |-> v[s].ep + 1, t |-> 0]
               ELSE [ep |-> v[s].ep, t |-> v[s].t + 1]],
   obs |-> [s \in Slots |->
              IF done[s] THEN Obs(s, v[s].ep + 1, 0, FALSE)
              ELSE Obs(s, v[s].ep, v[s].t + 1, FALSE)],
   rew |-> [s \in Slots |-> Rew(s, v[s].ep, v[s].t + 1)],
   info |-> [s \in Slots |-> Info(s, v[s].ep, v[s].t + 1, done[s])]]

\* The done flags the environment may report: any, except that an episode
\* ends at the latest after MaxEpLen steps (a time limit).
DoneBatches(v) ==
  {d \in [Slots -> BOOLEAN] : \A s \in Slots : v[s].t + 1 >= MaxEpLen => d[s]}

\* ------------------------------------------------- generate_trajectories
\* Seeding after reset: one observation-only record per slot.
RECURSIVE SeedAccum(_, _, _)
SeedAccum(accum, obs, env_idx) ==
  IF env_idx >= NumEnvs THEN accum
  ELSE SeedAccum(add_step(accum, env_idx, [obs |-> obs[env_idx]]), obs,
                 env_idx + 1)

\* Variant: info.get('terminal_observation', obs), the observation returned
\* by step stands in for a missing key.
terminal_observation_OrObs(obs, info) ==
  [raised |-> "none",
   value |-> IF "terminal_observation" \in DOMAIN info
             THEN info.terminal_observation ELSE obs]

\* info['terminal_observation']: KeyError when the key is missing.
terminal_observation(obs, info) ==
  IF "terminal_observation" \in DOMAIN info
  THEN [raised |-> "none", value |-> info.terminal_observation]
  ELSE [raised |-> "KeyError", value |-> << >>]

\* Variant: keeps the observation returned by step also when done.
real_obs_AutoReset(obs, done, info) == obs

\* The observation recorded for a step.
real_obs(obs, done, info) ==
  IF done THEN terminal_observation(obs, info).value ELSE obs

\* Variant: the step that ends an episode is recorded without its info.
step_dict_NoInfoOnDone(act, rew, obs, done, info) ==
  IF done THEN [act |-> act, rew |-> rew, obs |-> info.terminal_observation]
  ELSE [act |-> act, rew |-> rew, obs |-> obs, infos |-> info]

\* The record added for a step.
step_dict(act, rew, obs, done, info) ==
  [act |-> act, rew |-> rew, obs |-> real_obs(obs, done, info), infos |-> info]

\* The observation-only record that starts a slot's next trajectory.
reseed_dict(obs, done, info) == [obs |-> obs]

\* Variant: the termination predicate is also evaluated inside the for loop,
\* which is left as soon as it holds.
RECURSIVE ProcessSlots_StopWhenSatisfied(_, _, _, _, _, _, _)
ProcessSlots_StopWhenSatisfied(env_idx, st, act, obs, rew, done, info) ==
  IF \/ env_idx >= NumEnvs
     \/ st.raised # "none"
     \/ SampleUntil(sample_until, st.trajs)
  THEN st
  ELSE
    LET added == add_step(st.accum, env_idx,
                          step_dict(act[env_idx], rew[env_idx], obs[env_idx],
                                    done[env_idx], info[env_idx]))
        fin == finish_trajectory(added, env_idx)
        next == IF ~done[env_idx]
                THEN [st EXCEPT !.accum = added]
                ELSE [accum |-> add_step(fin.accum, env_idx,
                                         reseed_dict(obs[env_idx],
                                                     done[env_idx],
                                                     info[env_idx])),
                      trajs |-> Append(st.trajs, fin.traj),
                      raised |-> fin.raised]
    IN  ProcessSlots_StopWhenSatisfied(env_idx + 1, next, act, obs, rew, done,
                                       info)

\* Variant: a finished trajectory is put in front of the completed ones.
RECURSIVE ProcessSlots_NewestFirst(_, _, _, _, _, _, _)
ProcessSlots_NewestFirst(env_idx, st, act, obs, rew, done, info) ==
  IF env_idx >= NumEnvs \/ st.raised # "none" THEN st
  ELSE IF /\ done[env_idx]
          /\ terminal_observation(obs[env_idx], info[env_idx]).raised # "none"
  THEN [st EXCEPT !.raised = "KeyError"]
  ELSE
    LET added == add_step(st.accum, env_idx,
                          step_dict(act[env_idx], rew[env_idx], obs[env_idx],
                                    done[env_idx], info[env_idx]))
        fin == finish_trajectory(added, env_idx)
        next == IF ~done[env_idx]
                THEN [st EXCEPT !.accum = added]
                ELSE IF fin.raised # "none"
                THEN [st EXCEPT !.accum = fin.accum, !.raised = fin.raised]
                ELSE [accum |-> add_step(fin.accum, env_idx,
                                         reseed_dict(obs[env_idx],
                                                     done[env_idx],
                                                     info[env_idx])),
                      trajs |-> << fin.traj >> \o st.trajs,
                      raised |-> "none"]
    IN  ProcessSlots_NewestFirst(env_idx + 1, next, act, obs, rew, done, info)

\* Body of the for loop over the slots of one batched step, for env_idx and
\* the slots after it.  st holds the accumulator, the completed trajectories
\* and the exception raised, if any.
RECURSIVE ProcessSlots(_, _, _, _, _, _, _)
ProcessSlots(env_idx, st, act, obs, rew, done, info) ==
  IF env_idx >= NumEnvs \/ st.raised # "none" THEN st
  ELSE IF /\ done[env_idx]
          /\ terminal_observation(obs[env_idx], info[env_idx]).raised # "none"
  THEN [st EXCEPT !.raised = "KeyError"]
  ELSE
    LET added == add_step(st.accum, env_idx,
                          step_dict(act[env_idx], rew[env_idx], obs[env_idx],
                                    done[env_idx], info[env_idx]))
        fin == finish_trajectory(added, env_idx)
        next == IF ~done[env_idx]
                THEN [st EXCEPT !.accum = added]
                ELSE IF fin.raised # "none"
                THEN [st EXCEPT !.accum = fin.accum, !.raised = fin.raised]
                ELSE [accum |-> add_step(fin.accum, env_idx,
                                         reseed_dict(obs[env_idx],
                                                     done[env_idx],
                                                     info[env_idx])),
                      trajs |-> Append(st.trajs, fin.traj),
                      raised |-> "none"]
    IN  ProcessSlots(env_idx + 1, next, act, obs, rew, done, info)

\* What one iteration of the while loop calls, in this order: the termination
\* predicate, the policy for the actions of all slots, and the environment
\* for one batched step.
WhileIteration == << "sample_until", "get_action", "venv.step" >>

\* The sanity checks on the trajectories about to be returned.
SanityChecks(trajs) ==
  IF \A i \in 1 .. Len(trajs) :
       /\ Len(trajs[i].obs) = Len(trajs[i].act) + 1
       /\ Len(trajs[i].rew) = Len(trajs[i].act)
  THEN "none" ELSE "AssertionError"

\* ------------------- generate_trajectories of imitation/util/rollout.py
\* The earlier version of the function (the other copy of rollout.py): the
\* end condition comes from its own two arguments, a trajectory is a
\* dictionary, and the step that ends an episode is not recorded.

\* Validation of the end-condition arguments.
legacy_end_cond(nt, ne) ==
  IF ~IsNone(nt) /\ ~IsNone(ne)
  THEN [raised |-> "ValueError", value |-> NoPredicate]
  ELSE IF ~IsNone(nt)
  THEN IF nt[1] > 0
       THEN [raised |-> "none",
             value |-> [kind |-> "min_timesteps", n |-> nt[1]]]
       ELSE [raised |-> "AssertionError", value |-> NoPredicate]
  ELSE IF ~IsNone(ne)
  THEN IF ne[1] > 0
       THEN [raised |-> "none",
             value |-> [kind |-> "min_episodes", n |-> ne[1]]]
       ELSE [raised |-> "AssertionError", value |-> NoPredicate]
  ELSE [raised |-> "ValueError", value |-> NoPredicate]

rollout_done(p, trajs) ==
  IF p.kind = "min_timesteps"
  THEN SumSeq([i \in 1 .. Len(trajs) |-> Len(trajs[i].obs) - 1]) >= p.n
  ELSE Len(trajs) >= p.n

\* finish_trajectory of the earlier accumulator: a dictionary with the keys
\* that occur in the slot's records.
legacy_finish_trajectory(accum, idx) ==
  LET part_dicts == accum[idx]
      keys == UNION {DOMAIN part_dicts[i] : i \in 1 .. Len(part_dicts)}
  IN  [accum |-> [accum EXCEPT ![idx] = << >>],
       traj |-> [k \in keys |-> Stacked(part_dicts, k)]]

\* Variant: the keys of a finished trajectory are not checked.
has_expected_keys_Unchecked(new_traj) == TRUE

\* {'act', 'obs', 'rew'} <= new_traj.keys()
has_expected_keys(new_traj) == {"act", "obs", "rew"} \subseteq DOMAIN new_traj

\* Body of the for loop of the earlier version, for env_idx and the slots
\* after it.
RECURSIVE LegacyProcessSlots(_, _, _, _, _, _)
LegacyProcessSlots(env_idx, st, act, obs, rew, done) ==
  IF env_idx >= NumEnvs \/ st.raised # "none" THEN st
  ELSE
    LET fin == legacy_finish_trajectory(st.accum, env_idx)
        next == IF ~done[env_idx]
                THEN [st EXCEPT !.accum =
                        add_step(st.accum, env_idx,
                                 [act |-> act[env_idx], rew |-> rew[env_idx],
                                  obs |-> obs[env_idx]])]
                ELSE IF ~has_expected_keys(fin.traj)
                THEN [st EXCEPT !.accum = fin.accum, !.raised = "ValueError"]
                ELSE [accum |-> add_step(fin.accum, env_idx,
                                         [obs |-> obs[env_idx]]),
                      trajs |-> Append(st.trajs, fin.traj),
                      raised |-> "none"]
    IN  LegacyProcessSlots(env_idx + 1, next, act, obs, rew, done)

\* What one iteration of the while loop of the earlier version calls.
LegacyWhileIteration == << "rollout_done", "get_action", "venv.step" >>

\* The sanity checks of the earlier version index every trajectory by key.
LegacySanityChecks(trajs) ==
  IF \E i \in 1 .. Len(trajs) :
       ~({"act", "obs", "rew"} \subseteq DOMAIN trajs[i])
  THEN "KeyError"
  ELSE IF \A i \in 1 .. Len(trajs) :
            /\ Len(trajs[i].obs) = Len(trajs[i].act) + 1
            /\ Len(trajs[i].rew) = Len(trajs[i].act)
  THEN "none" ELSE "AssertionError"

\* ---------------------------------------------------- flatten_trajectories
EmptyTransitions ==
  [obs |-> << >>, act |-> << >>, next_obs |-> << >>, rew |-> << >>,
   done |-> << >>]

\* Variant: marks the first transition, done[0] = True.
DoneMarks_First(traj) == [i \in 1 .. Len(traj.rew) |-> i = 1]

\* Variant: marks every transition, np.ones_like.
DoneMarks_AllTrue(traj) == [i \in 1 .. Len(traj.rew) |-> TRUE]

\* done = np.zeros_like(traj.rew, dtype=bool); done[-1] = True
DoneMarks(traj) == [i \in 1 .. Len(traj.rew) |-> i = Len(traj.rew)]

\* Variant: next_obs is sliced like obs, obs[:-1].
Parts_NextObsOffByOne(traj) ==
  [obs |-> SubSeq(traj.obs, 1, Len(traj.obs) - 1),
   act |-> traj.act,
   next_obs |-> SubSeq(traj.obs, 1, Len(traj.obs) - 1),
   rew |-> traj.rew,
   done |-> [i \in 1 .. Len(traj.rew) |-> i = Len(traj.rew)]]

\* What one trajectory contributes to each field.
Parts(traj) ==
  [obs |-> SubSeq(traj.obs, 1, Len(traj.obs) - 1),
   act |-> traj.act,
   next_obs |-> SubSeq(traj.obs, 2, Len(traj.obs)),
   rew |-> traj.rew,
   done |-> DoneMarks(traj)]

RECURSIVE CatParts(_)
CatParts(trajs) ==
  IF trajs = << >> THEN EmptyTransitions
  ELSE LET p == Parts(Head(trajs))
           r == CatParts(Tail(trajs))
       IN  [obs |-> p.obs \o r.obs, act |-> p.act \o r.act,
            next_obs |-> p.next_obs \o r.next_obs, rew |-> p.rew \o r.rew,
            done |-> p.done \o r.done]

\* flatten_trajectories: done[-1] = True raises IndexError on a trajectory
\* without rewards, np.concatenate raises ValueError on an empty list, and
\* the fields must have one common length.
flatten_trajectories(trajs) ==
  LET cat == CatParts(trajs)
      lengths == {Len(cat.obs), Len(cat.act), Len(cat.next_obs), Len(cat.rew),
                  Len(cat.done)}
  IN  IF \E i \in 1 .. Len(trajs) : Len(trajs[i].rew) = 0
      THEN [raised |-> "IndexError", value |-> EmptyTransitions]
      ELSE IF trajs = << >>
      THEN [raised |-> "ValueError", value |-> EmptyTransitions]
      ELSE IF Cardinality(lengths) # 1
      THEN [raised |-> "AssertionError", value |-> EmptyTransitions]
      ELSE [raised |-> "none", value |-> cat]

\* The truncation step of generate_transitions.
Truncated(tr, n, trunc) ==
  IF trunc
  THEN [obs |-> SliceTo(tr.obs, n), act |-> SliceTo(tr.act, n),
        next_obs |-> SliceTo(tr.next_obs, n), rew |-> SliceTo(tr.rew, n),
        done |-> SliceTo(tr.done, n)]
  ELSE tr

\* generate_transitions after generate_trajectories has returned traj.
generate_transitions(traj, n, trunc) ==
  LET flat == flatten_trajectories(traj)
  IN  IF flat.raised # "none" THEN flat
      ELSE [raised |-> "none",
            value |-> Truncated(flat.value, n[1], trunc /\ ~IsNone(n))]

\* ------------------------------------ trajectory classes (util/data.py)
\* TrajectoryWithRew(obs=..., acts=..., infos=..., rews=...): the dataclass
\* constructor with the length validation of __post_init__.
TrajectoryWithRew(obs, acts, infos, rews) ==
  IF \/ Len(obs) # Len(acts) + 1
     \/ Len(infos) # Len(acts)
     \/ Len(rews) # Len(acts)
  THEN [raised |-> "ValueError", value |-> << >>]
  ELSE [raised |-> "none",
        value |-> [cls |-> "TrajectoryWithRew", obs |-> obs, acts |-> acts,
                   infos |-> infos, rews |-> rews]]

\* Variant: the positional fields are taken in the order obs, acts.
_TrajectoryBackwardCompatible_ObsFirst(a1, a2, a3, a4) ==
  [cls |-> "_TrajectoryBackwardCompatible", acts |-> a2, obs |-> a1,
   rews |-> a3, infos |-> a4]

\* _TrajectoryBackwardCompatible(*args): a named tuple whose positional
\* fields are acts, obs, rews, infos.
_TrajectoryBackwardCompatible(a1, a2, a3, a4) ==
  [cls |-> "_TrajectoryBackwardCompatible", acts |-> a1, obs |-> a2,
   rews |-> a3, infos |-> a4]

\* ------------------------------------------------------------- pickle
\* A pickle is a sequence of chunks: a protocol header, one chunk per list
\* element, and the STOP opcode.  A file cut short lacks the STOP chunk.
\* A data-class instance is pickled as a reference to its class and its
\* __dict__; a rollout.Trajectory named tuple as a reference to its class and
\* its fields in positional order (act, obs, rew, infos).

\* Variant: the info records are replaced by None before pickling.
PickleObj_DropInfos(o) ==
  IF "cls" \in DOMAIN o
  THEN [op |-> "OBJ", ref |-> "imitation.util.data." \o o.cls,
        payload |-> [f \in DOMAIN o \ {"cls"} |->
                       IF f = "infos" THEN None ELSE o[f]]]
  ELSE [op |-> "OBJ", ref |-> "imitation.util.rollout.Trajectory",
        payload |-> << o.act, o.obs, o.rew, None >>]

PickleObj(o) ==
  IF "cls" \in DOMAIN o
  THEN [op |-> "OBJ", ref |-> "imitation.util.data." \o o.cls,
        payload |-> [f \in DOMAIN o \ {"cls"} |-> o[f]]]
  ELSE [op |-> "OBJ", ref |-> "imitation.util.rollout.Trajectory",
        payload |-> << o.act, o.obs, o.rew, o.infos >>]

\* pickle.dump(objs, f): everything that is written to f, in order.
pickle_dump(objs) ==
  << [op |-> "PROTO"] >> \o [i \in 1 .. Len(objs) |-> PickleObj(objs[i])]
    \o << [op |-> "STOP"] >>

\* Rebuilding one list element.  patched says whether the name
\* imitation.util.rollout.Trajectory is bound to _TrajectoryBackwardCompatible
\* (as under the mock.patch of data.load) or to the named tuple of rollout.py.
\* A data-class instance gets its __dict__ back without __post_init__.
UnpickleObj(chunk, patched) ==
  IF chunk.ref = "imitation.util.rollout.Trajectory"
  THEN IF patched
       THEN _TrajectoryBackwardCompatible(chunk.payload[1], chunk.payload[2],
                                          chunk.payload[3], chunk.payload[4])
       ELSE [act |-> chunk.payload[1], obs |-> chunk.payload[2],
             rew |-> chunk.payload[3], infos |-> chunk.payload[4]]
  ELSE [f \in DOMAIN chunk.payload \cup {"cls"} |->
          IF f = "cls" THEN "TrajectoryWithRew" ELSE chunk.payload[f]]

\* pickle.load(f) on a file holding data.
pickle_load(data, patched) ==
  IF data = << >>
  THEN [raised |-> "EOFError", value |-> << >>]
  ELSE IF data[Len(data)].op # "STOP"
  THEN [raised |-> "UnpicklingError", value |-> << >>]
  ELSE [raised |-> "none",
        value |-> [i \in 1 .. Len(data) - 2 |->
                     UnpickleObj(data[i + 1], patched)]]

\* ------------------------------------------------------------ file system
\* A path names a file of the rollout directory, or that name with ".tmp"
\* appended.
FilePath(i) == [name |-> i, suffix |-> ""]

\* Variant: the temporary file is the destination itself.
TmpOf_Same(p) == p

\* path + ".tmp"
TmpOf(p) == [p EXCEPT !.suffix = @ \o ".tmp"]

Paths ==
  {FilePath(i) : i \in 1 .. MaxFiles} \cup
  {TmpOf(FilePath(i)) : i \in 1 .. MaxFiles} \cup
  {TmpOf(TmpOf(FilePath(i))) : i \in 1 .. MaxFiles}

Absent == [exists |-> FALSE, data |-> << >>]
File(data) == [exists |-> TRUE, data |-> data]

\* open(p, "wb"): creates the file, or truncates it when it exists.
open_wb(files, p) == [files EXCEPT ![p] = File(<< >>)]

\* One more chunk of full reaches the file at p.
write_chunk(files, p, full) ==
  [files EXCEPT ![p] = File(Append(@.data, full[Len(@.data) + 1]))]

\* os.replace(src, dst): dst becomes src's file in one step; src is gone.
os_replace(files, src, dst) ==
  IF src = dst THEN files
  ELSE [files EXCEPT ![dst] = files[src], ![src] = Absent]

\* data.load(path), run against the file found at path.
load(file) ==
  LET r == pickle_load(file.data, TRUE)
      isCompat(t) == t.cls = "_TrajectoryBackwardCompatible"
      conv == [i \in 1 .. Len(r.value) |->
                 LET t == r.value[i]
                 IN  TrajectoryWithRew(t.obs, t.acts, t.infos, t.rews)]
  IN  IF ~file.exists
      THEN [raised |-> "FileNotFoundError", value |-> << >>]
      ELSE IF r.raised # "none" THEN r
      ELSE IF Len(r.value) > 0 /\ isCompat(r.value[1])
      THEN IF \E i \in 1 .. Len(r.value) : ~isCompat(r.value[i])
           THEN [raised |-> "AttributeError", value |-> << >>]
           ELSE IF \E i \in 1 .. Len(r.value) : conv[i].raised # "none"
           THEN [raised |-> "ValueError", value |-> << >>]
           ELSE [raised |-> "none",
                 value |-> [i \in 1 .. Len(r.value) |-> conv[i].value]]
      ELSE r

\* ---------------------------------------------------- load_trajectories
\* The files of the directory that match the glob.
Matching(files) == {p \in Paths : p.suffix = "" /\ files[p].exists}

\* glob.glob returns the matching paths in an order of its own.
Listings(files) ==
  LET m == Matching(files)
  IN  {l \in [1 .. Cardinality(m) -> m] :
         \A i, j \in 1 .. Cardinality(m) : i # j => l[i] # l[j]}

\* ro_paths.sort(key=os.path.getmtime): ascending, and stable.
RECURSIVE SortByMtime(_, _)
SortByMtime(paths, mt) ==
  IF Len(paths) <= 1 THEN paths
  ELSE LET init == SortByMtime(SubSeq(paths, 1, Len(paths) - 1), mt)
           x == paths[Len(paths)]
           k == Cardinality({i \in 1 .. Len(init) : mt[init[i]] <= mt[x]})
       IN  SubSeq(init, 1, k) \o << x >> \o SubSeq(init, k + 1, Len(init))

\* paths[-n:]
LastN(paths, n) ==
  LET start == IF n > 0 THEN Max2(Len(paths) - n, 0)
               ELSE Min2(0 - n, Len(paths))
  IN  SubSeq(paths, start + 1, Len(paths))

\* The paths that are read, for a listing returned by glob.
SelectPaths(listing, mt, n) ==
  IF IsNone(n) THEN listing ELSE LastN(SortByMtime(listing, mt), n[1])

\* traj_joined after the files of paths were unpickled and joined.
RECURSIVE JoinFiles(_, _)
JoinFiles(files, paths) ==
  IF paths = << >> THEN [raised |-> "none", value |-> << >>]
  ELSE LET r == pickle_load(files[Head(paths)].data, FALSE)
           rest == JoinFiles(files, Tail(paths))
       IN  IF r.raised # "none" THEN r
           ELSE IF rest.raised # "none" THEN rest
           ELSE [raised |-> "none", value |-> r.value \o rest.value]

\* ---------------------------------------- redirect_to_files (multi.py)
\* The console streams of the process and the two files.
Streams == {"stdout", "stderr", "out.log", "err.log"}

\* redirect_stdout / redirect_stderr up to the yield: the stream in use is
\* saved, the file at path is opened with "w" (made empty) and takes its
\* place.
enter_redirect(current, p) == IF IsNone(p) THEN current ELSE p[1]

\* What the two open(path, "w") do to the files.
opened(str, so, se) ==
  [x \in Streams |->
     IF (~IsNone(so) /\ x = so[1]) \/ (~IsNone(se) /\ x = se[1])
     THEN << >> ELSE str[x]]

\* print(..., file=None) and traceback.print_exc(file=None): the text goes
\* to the stream the name is bound to at the time of the call.
write(str, stream, text) == [str EXCEPT ![stream] = Append(@, text)]

RedirectIdle ==
  /\ stdout_path = None
  /\ stderr_path = None
  /\ sys_stdout = "stdout"
  /\ sys_stderr = "stderr"
  /\ temp = [stdout |-> "stdout", stderr |-> "stderr"]
  /\ streams = [x \in Streams |-> << >>]

\* ------------------------------ EpochOrBatchIteratorWithProgress (bc.py)
IterIdle ==
  /\ n_epochs = None
  /\ n_batches = None
  /\ use_epochs = FALSE
  /\ loader_len = 0
  /\ pos = 0
  /\ epoch_num = 0
  /\ batch_num = 0
  /\ epoch_end_calls = 0

\* No batch was returned yet.
NoBatch == [s \in Slots |-> << >>]

\* No call was made on an accumulator of its own.
NoCall == [method |-> "none", idx |-> 0]

AccumIdle ==
  /\ n_calls = 0
  /\ last_call = NoCall
  /\ added_since = [s \in Slots |-> [finished |-> 0, records |-> << >>]]
  /\ returned_traj = << >>

\* ---------------------------------------------------- RewardVecEnvWrapper
\* The reward reward_fn gives one environment for one step: it depends on
\* the four values it was called with for that environment.
reward_of(old_obs, act, new_obs, steps) ==
  [reward_fn |-> << old_obs, act, new_obs, steps >>]

\* reward_fn(old_obs, actions, new_obs, steps), over all environments.
reward_fn(args) ==
  [s \in Slots |-> reward_of(args.old_obs[s], args.act[s], args.new_obs[s],
                             args.steps[s])]

\* A sum of rewards is the sequence of its terms; np.zeros is the empty sum.
ZeroRew == [s \in Slots |-> << >>]

\* obs_fixed of step_wait: the terminal observation of the info record
\* stands in for the observation of an environment that is done.
obs_fixed(obs, dones, infos) ==
  [s \in Slots |-> IF dones[s]
                   THEN terminal_observation(obs[s], infos[s]).value
                   ELSE obs[s]]

\* Variant: the observations handed to reward_fn as new_obs are kept.
next_old_obs_Fixed(obs, fixed) == fixed

\* self._old_obs = obs at the end of step_wait.
next_old_obs(obs, fixed) == obs

\* deque.append on a deque with maxlen.
deque_append(dq, x, maxlen) ==
  IF maxlen = 0 THEN << >>
  ELSE IF Len(dq) >= maxlen THEN Append(Tail(dq), x)
  ELSE Append(dq, x)

\* The statistics loop of step_wait, for env_idx and the environments after
\* it: the sum of an environment that is done is appended.
RECURSIVE update_statistics(_, _, _, _, _)
update_statistics(env_idx, dq, dones, cumulative, maxlen) ==
  IF env_idx >= NumEnvs THEN dq
  ELSE update_statistics(env_idx + 1,
                         IF dones[env_idx]
                         THEN deque_append(dq, cumulative[env_idx], maxlen)
                         ELSE dq,
                         dones, cumulative, maxlen)

\* info_dict['wrapped_env_rew'] = old_rew
with_wrapped_env_rew(info, old_rew) ==
  [k \in DOMAIN info \cup {"wrapped_env_rew"} |->
     IF k = "wrapped_env_rew" THEN old_rew ELSE info[k]]

\* The done flags the wrapped environment may report: the first and the
\* last environment end their episodes at any step, the others run on.
WrappedDoneBatches ==
  {d \in [Slots -> BOOLEAN] :
     \A s \in Slots : d[s] => s \in {0, NumEnvs - 1}}

\* The episodes that end in a step, in the order of the environments: the
\* environment, the number of the episode and its length.
RECURSIVE EndedEpisodes(_, _, _)
EndedEpisodes(env_idx, v, dones) ==
  IF env_idx >= NumEnvs THEN << >>
  ELSE (IF dones[env_idx]
        THEN << [slot |-> env_idx, ep |-> v[env_idx].ep,
                 len |-> v[env_idx].t + 1] >>
        ELSE << >>) \o EndedEpisodes(env_idx + 1, v, dones)

NoArgs == [old_obs |-> NoBatch, act |-> NoBatch, new_obs |-> NoBatch,
           steps |-> [s \in Slots |-> 0]]

WrapperIdle ==
  /\ ep_history = 0
  /\ episode_rewards = << >>
  /\ _cumulative_rew = ZeroRew
  /\ _old_obs = NoBatch
  /\ _actions = NoBatch
  /\ _step_counter = [s \in Slots |-> 0]
  /\ reward_fn_args = NoArgs
  /\ finished_episodes = << >>

\* ------------------------------------------- two data.save calls at once
Savers == {1, 2}

SaversIdle ==
  /\ save_pc = [i \in Savers |-> "idle"]
  /\ save_path = [i \in Savers |-> FilePath(1)]
  /\ save_trajs = [i \in Savers |-> << >>]
  /\ written = [i \in Savers |-> 0]
  /\ unlinked = [i \in Savers |-> FALSE]

ExtraIdle == AccumIdle /\ WrapperIdle /\ SaversIdle

\* -------------------------------------------------------------- inputs
\* A trajectory of len steps, as the j-th episode of one environment.
InputTraj(j, len) ==
  LET o == [i \in 1 .. len + 1 |-> Obs(0, j, i - 1, i = len + 1)]
  IN  [obs |-> o,
       act |-> [i \in 1 .. len |-> get_action(o[i])],
       rew |-> [i \in 1 .. len |-> Rew(0, j, i)],
       infos |-> [i \in 1 .. len |-> Info(0, j, i, i = len)]]

\* Sequences of at most MaxTrajs trajectories of 0 .. MaxEpLen steps each.
InputTrajectories ==
  {[j \in 1 .. m |-> InputTraj(j, lens[j])] :
     m \in 0 .. MaxTrajs, lens \in [1 .. MaxTrajs -> 0 .. MaxEpLen]}

OptInts == {None} \cup {Some(n) : n \in -1 .. MaxN}

\* The same trajectory as a TrajectoryWithRew of data.py.
WithRew(t) == TrajectoryWithRew(t.obs, t.act, t.infos, t.rew).value

\* The lengths of the trajectories that are saved and loaded: without
\* actions, one step, and the longest episode.
RecordLens == {0, 1, MaxEpLen}

\* What data.save may be given.
SaveInputs ==
  {[j \in 1 .. m |-> WithRew(InputTraj(j, lens[j]))] :
     m \in 0 .. MaxTrajs, lens \in [1 .. MaxTrajs -> RecordLens]}

\* What a rollout file may hold: per record, either the named tuple that
\* rollout.save pickles or the data class that data.save pickles.
FileObjs ==
  {[j \in 1 .. m |-> IF old[j] THEN InputTraj(j, lens[j])
                     ELSE WithRew(InputTraj(j, lens[j]))] :
     m \in 0 .. MaxTrajs, lens \in [1 .. MaxTrajs -> RecordLens],
     old \in [1 .. MaxTrajs -> BOOLEAN]}

\* The file an earlier, completed save left at the path.
PrevFile == File(pickle_dump(<< WithRew(InputTraj(0, 1)) >>))

\* The trajectories rollout.save left in the i-th file of the directory:
\* named tuples of episodes that no other file holds.
FileTrajs(i) ==
  IF i % 2 = 0 THEN << InputTraj(2 * i, 1), InputTraj(2 * i + 1, 2) >>
  ELSE << InputTraj(2 * i, 1) >>

\* The i-th rollout file of the directory.
CompleteRollout(i) == File(pickle_dump(FileTrajs(i)))

\* What an interrupted earlier save left behind.
PartialFile == File(<< [op |-> "PROTO"] >>)

NoFiles == [p \in Paths |-> Absent]

\* The termination predicates handed to rollout.save.
SavePredicates ==
  {[kind |-> k, n |-> 1] : k \in {"min_timesteps", "min_episodes"}}

RolloutIdle ==
  /\ n_timesteps = None
  /\ n_episodes = None
  /\ truncate = FALSE
  /\ sample_until = NoPredicate
  /\ venv = [s \in Slots |-> [ep |-> 0, t |-> 0]]
  /\ venv_calls = [reset |-> 0, step |-> 0]
  /\ calls = << >>
  /\ obs_batch = NoBatch
  /\ act_batch = NoBatch
  /\ rew_batch = NoBatch
  /\ done_batch = [s \in Slots |-> FALSE]
  /\ info_batch = NoBatch
  /\ partial_trajectories = EmptyAccum
  /\ trajectories = << >>
  /\ transitions = EmptyTransitions

GlobIdle ==
  /\ max_n_files = None
  /\ mtime = [p \in Paths |-> 0]
  /\ ro_paths = << >>

PersistIdle ==
  /\ fs = NoFiles
  /\ path = FilePath(1)
  /\ data_trajs = << >>
  /\ loaded = << >>
  /\ GlobIdle

\* load_trajectories(rollout_glob, max_n_files): some files of the directory
\* match the glob, each a complete rollout pickle with a modification time.
LoadTrajectoriesInit ==
  /\ entry = "load_trajectories"
  /\ pc = "call"
  /\ raised = "none"
  /\ RolloutIdle
  /\ path = FilePath(1)
  /\ \E m \in SUBSET (1 .. MaxFiles) :
       /\ fs = [p \in Paths |->
                  IF p.suffix = "" /\ p.name \in m
                  THEN CompleteRollout(p.name) ELSE Absent]
       /\ \E mt \in [m -> 1 .. MaxMtime] :
            mtime = [p \in Paths |->
                       IF p.suffix = "" /\ p.name \in m THEN mt[p.name]
                       ELSE 0]
  /\ max_n_files \in {None} \cup {Some(n) : n \in 0 .. MaxFiles + 1}
  /\ data_trajs = << >>
  /\ loaded = << >>
  /\ ro_paths = << >>

\* data.save(path, trajectories): the path is absent or holds an earlier
\* save, and a temporary file may be left over.
SaveInit ==
  /\ entry = "data.save"
  /\ pc = "call"
  /\ raised = "none"
  /\ RolloutIdle
  /\ path = FilePath(1)
  /\ \E prev \in {Absent, PrevFile}, tmp \in {Absent, PartialFile} :
       fs = [NoFiles EXCEPT ![path] = prev, ![TmpOf(path)] = tmp]
  /\ data_trajs \in SaveInputs
  /\ loaded = << >>
  /\ GlobIdle

\* rollout.save(path, policy, venv, sample_until): os.makedirs, then
\* generate_trajectories starts.
RolloutSaveInit ==
  /\ entry = "rollout.save"
  /\ pc = "reset"
  /\ raised = "none"
  /\ sample_until \in SavePredicates
  /\ n_timesteps = None
  /\ n_episodes = None
  /\ truncate = FALSE
  /\ venv = [s \in Slots |-> [ep |-> 0, t |-> 0]]
  /\ venv_calls = [reset |-> 0, step |-> 0]
  /\ calls = << >>
  /\ obs_batch = NoBatch
  /\ act_batch = NoBatch
  /\ rew_batch = NoBatch
  /\ done_batch = [s \in Slots |-> FALSE]
  /\ info_batch = NoBatch
  /\ partial_trajectories = EmptyAccum
  /\ trajectories = << >>
  /\ transitions = EmptyTransitions
  /\ path = FilePath(1)
  /\ \E prev \in {Absent, PrevFile} : fs = [NoFiles EXCEPT ![path] = prev]
  /\ data_trajs = << >>
  /\ loaded = << >>
  /\ GlobIdle

\* data.load(path): the path is absent, holds a file cut short, or holds a
\* complete pickle.
LoadInit ==
  /\ entry = "data.load"
  /\ pc = "call"
  /\ raised = "none"
  /\ RolloutIdle
  /\ path = FilePath(1)
  /\ \E f \in {Absent, PartialFile} \cup
              {File(pickle_dump(objs)) : objs \in FileObjs} :
       fs = [NoFiles EXCEPT ![path] = f]
  /\ data_trajs = << >>
  /\ loaded = << >>
  /\ GlobIdle

RolloutInit ==
  /\ pc \in {"call", "flatten"}
  /\ entry \in {"make_sample_until", "generate_transitions",
                "flatten_trajectories"}
  /\ (pc = "flatten") = (entry = "flatten_trajectories")
  /\ n_timesteps \in OptInts
  /\ n_episodes \in OptInts
  /\ truncate \in BOOLEAN
  /\ entry = "make_sample_until" => ~truncate
  /\ entry = "generate_transitions" =>
       /\ n_episodes = None
       /\ n_timesteps \in {Some(n) : n \in 0 .. MaxN}
  /\ entry = "flatten_trajectories" =>
       /\ n_episodes = None
       /\ n_timesteps = None
       /\ ~truncate
  /\ trajectories \in InputTrajectories
  /\ entry # "flatten_trajectories" => trajectories = << >>
  /\ sample_until = NoPredicate
  /\ raised = "none"
  /\ venv = [s \in Slots |-> [ep |-> 0, t |-> 0]]
  /\ venv_calls = [reset |-> 0, step |-> 0]
  /\ calls = << >>
  /\ obs_batch = NoBatch
  /\ act_batch = NoBatch
  /\ rew_batch = NoBatch
  /\ done_batch = [s \in Slots |-> FALSE]
  /\ info_batch = NoBatch
  /\ partial_trajectories = EmptyAccum
  /\ transitions = EmptyTransitions

\* generate_trajectories(policy, env, n_timesteps=, n_episodes=) of the
\* earlier version.
LegacyInit ==
  /\ entry = "legacy.generate_trajectories"
  /\ pc = "call"
  /\ raised = "none"
  /\ n_timesteps \in OptInts
  /\ n_episodes \in OptInts
  /\ truncate = FALSE
  /\ sample_until = NoPredicate
  /\ venv = [s \in Slots |-> [ep |-> 0, t |-> 0]]
  /\ venv_calls = [reset |-> 0, step |-> 0]
  /\ calls = << >>
  /\ obs_batch = NoBatch
  /\ act_batch = NoBatch
  /\ rew_batch = NoBatch
  /\ done_batch = [s \in Slots |-> FALSE]
  /\ info_batch = NoBatch
  /\ partial_trajectories = EmptyAccum
  /\ trajectories = << >>
  /\ transitions = EmptyTransitions
  /\ PersistIdle
  /\ RedirectIdle
  /\ IterIdle
  /\ ExtraIdle

\* redirect_to_files(f, stdout_path, stderr_path) has wrapped f, and the
\* wrapped function is about to be called.
RedirectInit ==
  /\ entry = "redirect_to_files"
  /\ pc = "call"
  /\ raised = "none"
  /\ stdout_path \in {None, Some("out.log")}
  /\ stderr_path \in {None, Some("err.log")}
  /\ sys_stdout = "stdout"
  /\ sys_stderr = "stderr"
  /\ temp = [stdout |-> "stdout", stderr |-> "stderr"]
  /\ streams \in [Streams -> {<< >>, << "earlier output" >>}]

\* EpochOrBatchIteratorWithProgress(data_loader, n_epochs, n_batches,
\* on_epoch_end) is about to be constructed and iterated over.
IteratorInit ==
  /\ entry = "EpochOrBatchIteratorWithProgress"
  /\ pc = "call"
  /\ raised = "none"
  /\ n_epochs \in {None} \cup {Some(n) : n \in 0 .. MaxN}
  /\ n_batches \in {None} \cup {Some(n) : n \in 0 .. MaxN}
  /\ use_epochs = FALSE
  /\ loader_len \in 0 .. MaxBatches
  /\ pos = 0
  /\ epoch_num = 0
  /\ batch_num = 0
  /\ epoch_end_calls = 0

\* A _TrajectoryAccumulator has been constructed, nothing was added to it.
AccumulatorInit ==
  /\ entry \in {"_TrajectoryAccumulator", "legacy._TrajectoryAccumulator"}
  /\ pc = "accumulating"
  /\ raised = "none"
  /\ RolloutIdle
  /\ AccumIdle
  /\ WrapperIdle
  /\ SaversIdle

\* RewardVecEnvWrapper(venv, reward_fn, ep_history) has been constructed:
\* __init__ has reset the inner environment.
WrapperInit ==
  /\ entry = "RewardVecEnvWrapper"
  /\ pc = "wrapped"
  /\ raised = "none"
  /\ n_timesteps = None
  /\ n_episodes = None
  /\ truncate = FALSE
  /\ sample_until = NoPredicate
  /\ LET r == VenvReset([s \in Slots |-> [ep |-> 0, t |-> 0]])
     IN  /\ venv = r.venv
         /\ obs_batch = r.obs
         /\ _old_obs = r.obs
  /\ venv_calls = [reset |-> 1, step |-> 0]
  /\ calls = << >>
  /\ act_batch = NoBatch
  /\ rew_batch = NoBatch
  /\ done_batch = [s \in Slots |-> FALSE]
  /\ info_batch = NoBatch
  /\ partial_trajectories = EmptyAccum
  /\ trajectories = << >>
  /\ transitions = EmptyTransitions
  /\ ep_history \in 1 .. MaxHistory
  /\ episode_rewards = << >>
  /\ _cumulative_rew = ZeroRew
  /\ _actions = NoBatch
  /\ _step_counter = [s \in Slots |-> 0]
  /\ reward_fn_args = NoArgs
  /\ finished_episodes = << >>
  /\ SaversIdle

\* The paths two callers may choose for their saves: two files of the
\* directory, and the name of the first with ".tmp" at its end.
SavePaths == {FilePath(1), FilePath(2), TmpOf(FilePath(1))}

\* The trajectories the i-th of the two callers saves.
SaverInput(i) ==
  IF i = 1 THEN << WithRew(InputTraj(1, 1)) >>
  ELSE << WithRew(InputTraj(2, MaxEpLen)), WithRew(InputTraj(3, 0)) >>

\* Two calls data.save(path, trajectories) are about to run at once, each
\* on its own path; each path is absent or holds an earlier save.
ConcurrentSaveInit ==
  /\ entry = "data.save || data.save"
  /\ pc = "saving"
  /\ raised = "none"
  /\ RolloutIdle
  /\ save_pc = [i \in Savers |-> "call"]
  /\ save_path \in {sp \in [Savers -> SavePaths] : sp[1] # sp[2]}
  /\ save_trajs = [i \in Savers |-> SaverInput(i)]
  /\ written = [i \in Savers |-> 0]
  /\ unlinked = [i \in Savers |-> FALSE]
  /\ \E prev \in [Savers -> {Absent, PrevFile}] :
       fs = [p \in Paths |-> IF p = save_path[1] THEN prev[1]
                             ELSE IF p = save_path[2] THEN prev[2]
                             ELSE Absent]
  /\ path = FilePath(1)
  /\ data_trajs = << >>
  /\ loaded = << >>
  /\ GlobIdle

Init ==
  \/ /\ RolloutInit
     /\ PersistIdle /\ RedirectIdle /\ IterIdle /\ ExtraIdle
  \/ /\ SaveInit \/ RolloutSaveInit \/ LoadInit \/ LoadTrajectoriesInit
     /\ RedirectIdle /\ IterIdle /\ ExtraIdle
  \/ /\ RedirectInit
     /\ RolloutIdle /\ PersistIdle /\ IterIdle /\ ExtraIdle
  \/ /\ IteratorInit
     /\ RolloutIdle /\ PersistIdle /\ RedirectIdle /\ ExtraIdle
  \/ /\ AccumulatorInit
     /\ PersistIdle /\ RedirectIdle /\ IterIdle
  \/ /\ WrapperInit
     /\ PersistIdle /\ RedirectIdle /\ IterIdle /\ AccumIdle
  \/ /\ ConcurrentSaveInit
     /\ RedirectIdle /\ IterIdle /\ AccumIdle /\ WrapperIdle

\* ------------------------------------------------------------- actions
\* The caller builds the termination predicate from its two arguments.
MakeSampleUntil ==
  /\ pc = "call"
  /\ entry = "make_sample_until"
  /\ LET r == make_sample_until(n_timesteps, n_episodes)
     IN  /\ raised' = r.raised
         /\ sample_until' = r.value
         /\ pc' = IF r.raised = "none" THEN "reset" ELSE "raised"
  /\ UNCHANGED << entry, n_timesteps, n_episodes, truncate, venv, venv_calls,
                  calls, obs_batch, act_batch, rew_batch, done_batch,
                  info_batch, partial_trajectories, trajectories,
                  transitions >>
  /\ UNCHANGED otherVars

\* generate_transitions passes min_timesteps(n_timesteps) on.
GenerateTransitionsCall ==
  /\ pc = "call"
  /\ entry = "generate_transitions"
  /\ sample_until' = [kind |-> "min_timesteps", n |-> n_timesteps[1]]
  /\ pc' = "reset"
  /\ UNCHANGED << entry, n_timesteps, n_episodes, truncate, raised, venv,
                  venv_calls, calls, obs_batch, act_batch, rew_batch,
                  done_batch, info_batch, partial_trajectories, trajectories,
                  transitions >>
  /\ UNCHANGED otherVars

\* generate_trajectories up to the loop: reset and seed the accumulator.
Reset ==
  /\ pc = "reset"
  /\ LET r == VenvReset(venv)
     IN  /\ venv' = r.venv
         /\ obs_batch' = r.obs
         /\ partial_trajectories' = SeedAccum(EmptyAccum, r.obs, 0)
  /\ venv_calls' = [venv_calls EXCEPT !.reset = @ + 1]
  /\ calls' = Append(calls, "venv.reset")
  /\ trajectories' = << >>
  /\ pc' = "loop"
  /\ UNCHANGED << entry, n_timesteps, n_episodes, truncate, sample_until,
                  raised, act_batch, rew_batch, done_batch, info_batch,
                  transitions >>
  /\ UNCHANGED otherVars

\* One iteration of the while loop: one action query, one batched step, and
\* the for loop over the slots.
Step ==
  /\ pc = "loop"
  /\ entry # "legacy.generate_trajectories"
  /\ ~SampleUntil(sample_until, trajectories)
  /\ \E done \in DoneBatches(venv) :
       LET obs_old_batch == obs_batch
           acts == [s \in Slots |-> get_action(obs_old_batch[s])]
           r == VenvStep(venv, done)
           st == ProcessSlots(0, [accum |-> partial_trajectories,
                                  trajs |-> trajectories,
                                  raised |-> "none"],
                              acts, r.obs, r.rew, done, r.info)
       IN  /\ act_batch' = acts
           /\ venv' = r.venv
           /\ obs_batch' = r.obs
           /\ rew_batch' = r.rew
           /\ done_batch' = done
           /\ info_batch' = r.info
           /\ partial_trajectories' = st.accum
           /\ trajectories' = st.trajs
           /\ raised' = st.raised
           /\ pc' = IF st.raised = "none" THEN "loop" ELSE "raised"
  /\ venv_calls' = [venv_calls EXCEPT !.step = @ + 1]
  /\ calls' = calls \o WhileIteration
  /\ UNCHANGED << entry, n_timesteps, n_episodes, truncate, sample_until,
                  transitions >>
  /\ UNCHANGED otherVars

\* The loop ends: sanity checks, then generate_trajectories returns.
Return ==
  /\ pc = "loop"
  /\ entry # "legacy.generate_trajectories"
  /\ SampleUntil(sample_until, trajectories)
  /\ calls' = Append(calls, "sample_until")
  /\ raised' = SanityChecks(trajectories)
  /\ pc' = IF raised' # "none" THEN "raised"
           ELSE IF entry = "generate_transitions" THEN "flatten"
           ELSE IF entry = "rollout.save" THEN "open"
           ELSE "done"
  /\ UNCHANGED << entry, n_timesteps, n_episodes, truncate, sample_until,
                  venv, venv_calls, obs_batch, act_batch, rew_batch,
                  done_batch, info_batch, partial_trajectories, trajectories,
                  transitions >>
  /\ UNCHANGED otherVars

\* flatten_trajectories on its own, or as the rest of generate_transitions.
Flatten ==
  /\ pc = "flatten"
  /\ LET r == IF entry = "generate_transitions"
              THEN generate_transitions(trajectories, n_timesteps, truncate)
              ELSE flatten_trajectories(trajectories)
     IN  /\ raised' = r.raised
         /\ transitions' = r.value
         /\ pc' = IF r.raised = "none" THEN "done" ELSE "raised"
  /\ UNCHANGED << entry, n_timesteps, n_episodes, truncate, sample_until,
                  venv, venv_calls, calls, obs_batch, act_batch, rew_batch,
                  done_batch, info_batch, partial_trajectories,
                  trajectories >>
  /\ UNCHANGED otherVars

\* --------------------------------------------- actions: save and load
\* data.save up to the dump: os.makedirs and open(path + ".tmp", "wb").
SaveOpenTmp ==
  /\ pc = "call"
  /\ entry = "data.save"
  /\ fs' = open_wb(fs, TmpOf(path))
  /\ pc' = "dump"
  /\ UNCHANGED << entry, raised, rolloutVars, path, data_trajs, loaded,
                  max_n_files, mtime, ro_paths >>
  /\ UNCHANGED << redirectVars, iterVars, extraVars >>

\* pickle.dump(trajectories, f) of data.save, one chunk at a time; the file
\* is closed after the last chunk.
SaveDump ==
  /\ pc = "dump"
  /\ entry = "data.save"
  /\ LET full == pickle_dump(data_trajs)
     IN  /\ fs' = write_chunk(fs, TmpOf(path), full)
         /\ pc' = IF Len(fs'[TmpOf(path)].data) = Len(full) THEN "replace"
                  ELSE "dump"
  /\ UNCHANGED << entry, raised, rolloutVars, path, data_trajs, loaded,
                  max_n_files, mtime, ro_paths >>
  /\ UNCHANGED << redirectVars, iterVars, extraVars >>

\* os.replace(path + ".tmp", path), and data.save returns.
SaveReplace ==
  /\ pc = "replace"
  /\ entry = "data.save"
  /\ fs' = os_replace(fs, TmpOf(path), path)
  /\ pc' = "done"
  /\ UNCHANGED << entry, raised, rolloutVars, path, data_trajs, loaded,
                  max_n_files, mtime, ro_paths >>
  /\ UNCHANGED << redirectVars, iterVars, extraVars >>

\* rollout.save after generate_trajectories returned: open(path, "wb").
RolloutSaveOpen ==
  /\ pc = "open"
  /\ entry = "rollout.save"
  /\ fs' = open_wb(fs, path)
  /\ pc' = "dump"
  /\ UNCHANGED << entry, raised, rolloutVars, path, data_trajs, loaded,
                  max_n_files, mtime, ro_paths >>
  /\ UNCHANGED << redirectVars, iterVars, extraVars >>

\* pickle.dump(trajs, f) of rollout.save, one chunk at a time; after the
\* last chunk the file is closed and rollout.save returns.
RolloutSaveDump ==
  /\ pc = "dump"
  /\ entry = "rollout.save"
  /\ LET full == pickle_dump(trajectories)
     IN  /\ fs' = write_chunk(fs, path, full)
         /\ pc' = IF Len(fs'[path].data) = Len(full) THEN "done" ELSE "dump"
  /\ UNCHANGED << entry, raised, rolloutVars, path, data_trajs, loaded,
                  max_n_files, mtime, ro_paths >>
  /\ UNCHANGED << redirectVars, iterVars, extraVars >>

\* The process is killed (or the machine loses power) during a save: the
\* files stay as they are.
Crash ==
  /\ entry \in {"data.save", "rollout.save"}
  /\ pc \in {"call", "open", "dump", "replace"}
  /\ pc' = "crashed"
  /\ UNCHANGED << entry, raised, rolloutVars, persistVars >>
  /\ UNCHANGED << redirectVars, iterVars, extraVars >>

\* data.load(path): called on its own, or by the caller of a data.save that
\* has returned.
Load ==
  /\ \/ entry = "data.load" /\ pc = "call"
     \/ entry = "data.save" /\ pc = "done"
  /\ LET r == load(fs[path])
     IN  /\ raised' = r.raised
         /\ loaded' = r.value
         /\ pc' = IF r.raised = "none" THEN "loaded" ELSE "raised"
  /\ UNCHANGED << entry, rolloutVars, fs, path, data_trajs, max_n_files,
                  mtime, ro_paths >>
  /\ UNCHANGED << redirectVars, iterVars, extraVars >>

\* load_trajectories(rollout_glob, max_n_files).
LoadTrajectories ==
  /\ entry = "load_trajectories"
  /\ pc = "call"
  /\ \E listing \in Listings(fs) :
       IF listing = << >>
       THEN /\ raised' = "ValueError"
            /\ pc' = "raised"
            /\ UNCHANGED << ro_paths, loaded >>
       ELSE LET sel == SelectPaths(listing, mtime, max_n_files)
                r == JoinFiles(fs, sel)
            IN  /\ ro_paths' = sel
                /\ raised' = r.raised
                /\ loaded' = r.value
                /\ pc' = IF r.raised = "none" THEN "loaded" ELSE "raised"
  /\ UNCHANGED << entry, rolloutVars, fs, path, data_trajs, max_n_files,
                  mtime >>
  /\ UNCHANGED << redirectVars, iterVars, extraVars >>

\* ------------------------------------------ actions: redirect_to_files
\* inner() up to the call of f: the ExitStack enters redirect_stdout and
\* redirect_stderr for the paths that were given.
EnterContexts ==
  /\ entry = "redirect_to_files"
  /\ pc = "call"
  /\ temp' = [stdout |-> sys_stdout, stderr |-> sys_stderr]
  /\ sys_stdout' = enter_redirect(sys_stdout, stdout_path)
  /\ sys_stderr' = enter_redirect(sys_stderr, stderr_path)
  /\ streams' = opened(streams, stdout_path, stderr_path)
  /\ pc' = "run"
  /\ UNCHANGED << entry, raised, stdout_path, stderr_path >>
  /\ UNCHANGED << rolloutVars, persistVars, iterVars, extraVars >>

\* f(*args, **kwargs) runs inside the contexts: it may print to sys.stdout
\* and to sys.stderr, and it returns or raises.  When it raises, the except
\* clause prints the traceback and raises again.
CallWrapped ==
  /\ entry = "redirect_to_files"
  /\ pc = "run"
  /\ \E prints_out, prints_err, raises \in BOOLEAN :
       LET s1 == IF prints_out THEN write(streams, sys_stdout, "output of f")
                 ELSE streams
           s2 == IF prints_err THEN write(s1, sys_stderr, "errors of f")
                 ELSE s1
       IN  /\ streams' = IF raises THEN write(s2, sys_stderr, "traceback")
                         ELSE s2
           /\ raised' = IF raises THEN "Exception" ELSE "none"
  /\ pc' = "unwind"
  /\ UNCHANGED << entry, stdout_path, stderr_path, sys_stdout, sys_stderr,
                  temp >>
  /\ UNCHANGED << rolloutVars, persistVars, iterVars, extraVars >>

\* The ExitStack unwinds: each context that was entered closes its file and
\* puts the saved stream back; inner() returns, or the exception leaves it.
ExitContexts ==
  /\ entry = "redirect_to_files"
  /\ pc = "unwind"
  /\ sys_stdout' = IF IsNone(stdout_path) THEN sys_stdout ELSE temp.stdout
  /\ sys_stderr' = IF IsNone(stderr_path) THEN sys_stderr ELSE temp.stderr
  /\ pc' = IF raised = "none" THEN "done" ELSE "raised"
  /\ UNCHANGED << entry, raised, stdout_path, stderr_path, temp, streams >>
  /\ UNCHANGED << rolloutVars, persistVars, iterVars, extraVars >>

\* ------------------------------------------- actions: batch iterator
\* __init__: exactly one of n_epochs and n_batches must be given; then
\* __iter__ starts.
Construct ==
  /\ entry = "EpochOrBatchIteratorWithProgress"
  /\ pc = "call"
  /\ IF ~IsNone(n_epochs) /\ IsNone(n_batches)
     THEN use_epochs' = TRUE /\ raised' = "none" /\ pc' = "iterating"
     ELSE IF IsNone(n_epochs) /\ ~IsNone(n_batches)
     THEN use_epochs' = FALSE /\ raised' = "none" /\ pc' = "iterating"
     ELSE use_epochs' = use_epochs /\ raised' = "ValueError" /\ pc' = "raised"
  /\ UNCHANGED << entry, n_epochs, n_batches, loader_len, pos, epoch_num,
                  batch_num, epoch_end_calls >>
  /\ UNCHANGED << rolloutVars, persistVars, redirectVars, extraVars >>

\* One iteration of the for loop: the next batch of the data loader is
\* counted and yielded; when the consumer asks for the next one, the
\* iterator in n_batches mode returns if batch_num has reached n_batches.
NextBatch ==
  /\ entry = "EpochOrBatchIteratorWithProgress"
  /\ pc = "iterating"
  /\ pos < loader_len
  /\ pos' = pos + 1
  /\ batch_num' = batch_num + 1
  /\ pc' = IF ~use_epochs /\ batch_num' >= n_batches[1] THEN "done"
           ELSE "iterating"
  /\ UNCHANGED << entry, raised, n_epochs, n_batches, use_epochs, loader_len,
                  epoch_num, epoch_end_calls >>
  /\ UNCHANGED << rolloutVars, persistVars, redirectVars, extraVars >>

\* The data loader is exhausted: epoch_num is counted, on_epoch_end is
\* called, and the iterator in n_epochs mode returns if epoch_num has reached
\* n_epochs; otherwise the while loop starts the next pass.  With an empty
\* data loader in n_batches mode this repeats without end; the model follows
\* it for MaxN + 1 rounds.
EpochEnd ==
  /\ entry = "EpochOrBatchIteratorWithProgress"
  /\ pc = "iterating"
  /\ pos = loader_len
  /\ epoch_num <= MaxN
  /\ epoch_num' = epoch_num + 1
  /\ epoch_end_calls' = epoch_end_calls + 1
  /\ pos' = 0
  /\ pc' = IF use_epochs /\ epoch_num' >= n_epochs[1] THEN "done" ELSE "iterating"
  /\ UNCHANGED << entry, raised, n_epochs, n_batches, use_epochs, loader_len,
                  batch_num >>
  /\ UNCHANGED << rolloutVars, persistVars, redirectVars, extraVars >>

\* ------------------------------- actions: a _TrajectoryAccumulator
\* The record a caller hands to add_step for idx: an observation-only record
\* or a record of a whole step.  It tells the idx it was made for, how many
\* trajectories of idx were finished before, and its place among the records
\* added since.
StepRecord(idx, ep, t, whole) ==
  IF whole
  THEN [act |-> get_action(Obs(idx, ep, t, FALSE)), rew |-> Rew(idx, ep, t),
        obs |-> Obs(idx, ep, t, FALSE), infos |-> Info(idx, ep, t, FALSE)]
  ELSE [obs |-> Obs(idx, ep, t, FALSE)]

\* add_step(idx, step_dict), with any idx and either kind of record.
AddStep ==
  /\ entry \in {"_TrajectoryAccumulator", "legacy._TrajectoryAccumulator"}
  /\ pc = "accumulating"
  /\ n_calls < MaxCalls
  /\ \E idx \in Slots, whole \in BOOLEAN :
       LET d == StepRecord(idx, added_since[idx].finished,
                           Len(added_since[idx].records), whole)
       IN  /\ partial_trajectories' = add_step(partial_trajectories, idx, d)
           /\ added_since' =
                [added_since EXCEPT ![idx].records = Append(@, d)]
           /\ last_call' = [method |-> "add_step", idx |-> idx]
  /\ n_calls' = n_calls + 1
  /\ UNCHANGED << pc, entry, raised, returned_traj >>
  /\ UNCHANGED << n_timesteps, n_episodes, truncate, sample_until, venv,
                  venv_calls, calls, obs_batch, act_batch, rew_batch,
                  done_batch, info_batch, trajectories, transitions >>
  /\ UNCHANGED << persistVars, redirectVars, iterVars, wrapperVars,
                  saversVars >>

\* finish_trajectory(idx), with any idx: the current version builds a
\* Trajectory from the stacked records and raises when a field is missing;
\* the earlier version returns the dictionary of the stacked records.
FinishTrajectory ==
  /\ entry \in {"_TrajectoryAccumulator", "legacy._TrajectoryAccumulator"}
  /\ pc = "accumulating"
  /\ n_calls < MaxCalls
  /\ \E idx \in Slots :
       LET cur == finish_trajectory(partial_trajectories, idx)
           old == legacy_finish_trajectory(partial_trajectories, idx)
           fin == IF entry = "_TrajectoryAccumulator" THEN cur
                  ELSE [accum |-> old.accum, raised |-> "none",
                        traj |-> old.traj]
       IN  /\ partial_trajectories' = fin.accum
           /\ raised' = fin.raised
           /\ returned_traj' = IF fin.raised = "none" THEN fin.traj
                              ELSE returned_traj
           /\ pc' = IF fin.raised = "none" THEN "accumulating" ELSE "raised"
           /\ added_since' =
                [added_since EXCEPT ![idx] = [finished |-> @.finished + 1,
                                             records |-> << >>]]
           /\ last_call' = [method |-> "finish_trajectory", idx |-> idx]
  /\ n_calls' = n_calls + 1
  /\ UNCHANGED << entry >>
  /\ UNCHANGED << n_timesteps, n_episodes, truncate, sample_until, venv,
                  venv_calls, calls, obs_batch, act_batch, rew_batch,
                  done_batch, info_batch, trajectories, transitions >>
  /\ UNCHANGED << persistVars, redirectVars, iterVars, wrapperVars,
                  saversVars >>

\* --------------------------------- actions: RewardVecEnvWrapper
\* reset(): the inner environment is reset, and its observations are kept
\* and returned; the step counters start again.
WrapperReset ==
  /\ entry = "RewardVecEnvWrapper"
  /\ pc = "wrapped"
  /\ venv_calls.reset + venv_calls.step < MaxCalls
  /\ LET r == VenvReset(venv)
     IN  /\ venv' = r.venv
         /\ _old_obs' = r.obs
         /\ obs_batch' = r.obs
  /\ _step_counter' = [s \in Slots |-> 0]
  /\ venv_calls' = [venv_calls EXCEPT !.reset = @ + 1]
  /\ UNCHANGED << pc, entry, raised, n_timesteps, n_episodes, truncate,
                  sample_until, calls, act_batch, rew_batch, done_batch,
                  info_batch, partial_trajectories, trajectories,
                  transitions >>
  /\ UNCHANGED << ep_history, episode_rewards, _cumulative_rew, _actions,
                  reward_fn_args, finished_episodes >>
  /\ UNCHANGED << persistVars, redirectVars, iterVars, accumVars,
                  saversVars >>

\* step(actions): step_async keeps the actions and passes them on, step_wait
\* takes the result of the inner environment, calls reward_fn, updates the
\* counters and the statistics, and returns.
WrapperStep ==
  /\ entry = "RewardVecEnvWrapper"
  /\ pc = "wrapped"
  /\ venv_calls.reset + venv_calls.step < MaxCalls
  /\ \E dones \in WrappedDoneBatches :
       LET actions == [s \in Slots |-> get_action(obs_batch[s])]
           r == VenvStep(venv, dones)
           args == [old_obs |-> _old_obs, act |-> actions,
                    new_obs |-> obs_fixed(r.obs, dones, r.info),
                    steps |-> _step_counter]
           rews == reward_fn(args)
           cumulative == [s \in Slots |-> Append(_cumulative_rew[s], rews[s])]
       IN  /\ _actions' = actions
           /\ act_batch' = actions
           /\ venv' = r.venv
           /\ reward_fn_args' = args
           /\ _step_counter' = [s \in Slots |-> IF dones[s] THEN 0
                                               ELSE _step_counter[s] + 1]
           /\ episode_rewards' = update_statistics(0, episode_rewards, dones,
                                                   cumulative, ep_history)
           /\ _cumulative_rew' = [s \in Slots |-> IF dones[s] THEN << >>
                                                 ELSE cumulative[s]]
           /\ _old_obs' = next_old_obs(r.obs, args.new_obs)
           /\ obs_batch' = r.obs
           /\ rew_batch' = rews
           /\ done_batch' = dones
           /\ info_batch' = [s \in Slots |->
                               with_wrapped_env_rew(r.info[s], r.rew[s])]
           /\ finished_episodes' =
                finished_episodes \o EndedEpisodes(0, venv, dones)
  /\ venv_calls' = [venv_calls EXCEPT !.step = @ + 1]
  /\ UNCHANGED << pc, entry, raised, n_timesteps, n_episodes, truncate,
                  sample_until, calls, partial_trajectories, trajectories,
                  transitions, ep_history >>
  /\ UNCHANGED << persistVars, redirectVars, iterVars, accumVars,
                  saversVars >>

\* --------------------------- actions: two data.save calls at once
\* Call i opens its temporary file, path + ".tmp", for writing.
ConcurrentOpenTmp ==
  /\ entry = "data.save || data.save"
  /\ \E i \in Savers :
       /\ save_pc[i] = "call"
       /\ fs' = open_wb(fs, TmpOf(save_path[i]))
       /\ save_pc' = [save_pc EXCEPT ![i] = "dump"]
  /\ UNCHANGED << pc, entry, raised, rolloutVars, path, data_trajs, loaded,
                  max_n_files, mtime, ro_paths >>
  /\ UNCHANGED << save_path, save_trajs, written, unlinked >>
  /\ UNCHANGED << redirectVars, iterVars, accumVars, wrapperVars >>

\* Call i writes the next chunk of its pickle to the file it has open; the
\* chunk shows at the temporary path unless another file was put there.
\* After the last chunk the file is closed.
ConcurrentDump ==
  /\ entry = "data.save || data.save"
  /\ \E i \in Savers :
       LET full == pickle_dump(save_trajs[i])
       IN  /\ save_pc[i] = "dump"
           /\ fs' = IF unlinked[i] THEN fs
                    ELSE write_chunk(fs, TmpOf(save_path[i]), full)
           /\ written' = [written EXCEPT ![i] = @ + 1]
           /\ save_pc' = [save_pc EXCEPT
                            ![i] = IF written[i] + 1 = Len(full)
                                   THEN "replace" ELSE "dump"]
  /\ UNCHANGED << pc, entry, raised, rolloutVars, path, data_trajs, loaded,
                  max_n_files, mtime, ro_paths >>
  /\ UNCHANGED << save_path, save_trajs, unlinked >>
  /\ UNCHANGED << redirectVars, iterVars, accumVars, wrapperVars >>

\* Call i does os.replace(path + ".tmp", path) and returns.  A file another
\* call has open at path is from now on without a name.
ConcurrentReplace ==
  /\ entry = "data.save || data.save"
  /\ \E i \in Savers :
       /\ save_pc[i] = "replace"
       /\ fs' = os_replace(fs, TmpOf(save_path[i]), save_path[i])
       /\ unlinked' = [j \in Savers |->
                         \/ unlinked[j]
                         \/ /\ save_pc[j] = "dump"
                            /\ TmpOf(save_path[j]) = save_path[i]]
       /\ save_pc' = [save_pc EXCEPT ![i] = "done"]
  /\ UNCHANGED << pc, entry, raised, rolloutVars, path, data_trajs, loaded,
                  max_n_files, mtime, ro_paths >>
  /\ UNCHANGED << save_path, save_trajs, written >>
  /\ UNCHANGED << redirectVars, iterVars, accumVars, wrapperVars >>

Next ==
  \/ MakeSampleUntil
  \/ GenerateTransitionsCall
  \/ Reset
  \/ Step
  \/ Return
  \/ Flatten
  \/ SaveOpenTmp
  \/ SaveDump
  \/ SaveReplace
  \/ RolloutSaveOpen
  \/ RolloutSaveDump
  \/ Crash
  \/ Load
  \/ LoadTrajectories
  \/ EnterContexts
  \/ CallWrapped
  \/ ExitContexts
  \/ Construct
  \/ NextBatch
  \/ EpochEnd
  \/ AddStep
  \/ FinishTrajectory
  \/ WrapperReset
  \/ WrapperStep
  \/ ConcurrentOpenTmp
  \/ ConcurrentDump
  \/ ConcurrentReplace

Spec == Init /\ [][Next]_vars

\* ------------------------------------- actions of the earlier version
\* Validation of n_timesteps and n_episodes.
LegacyCall ==
  /\ pc = "call"
  /\ entry = "legacy.generate_trajectories"
  /\ LET r == legacy_end_cond(n_timesteps, n_episodes)
     IN  /\ raised' = r.raised
         /\ sample_until' = r.value
         /\ pc' = IF r.raised = "none" THEN "reset" ELSE "raised"
  /\ UNCHANGED << entry, n_timesteps, n_episodes, truncate, venv, venv_calls,
                  calls, obs_batch, act_batch, rew_batch, done_batch,
                  info_batch, partial_trajectories, trajectories,
                  transitions >>
  /\ UNCHANGED otherVars

\* One iteration of the while loop of the earlier version.
LegacyStep ==
  /\ pc = "loop"
  /\ entry = "legacy.generate_trajectories"
  /\ ~rollout_done(sample_until, trajectories)
  /\ \E done \in DoneBatches(venv) :
       LET obs_old_batch == obs_batch
           acts == [s \in Slots |-> get_action(obs_old_batch[s])]
           r == VenvStep(venv, done)
           st == LegacyProcessSlots(0, [accum |-> partial_trajectories,
                                        trajs |-> trajectories,
                                        raised |-> "none"],
                                    acts, r.obs, r.rew, done)
       IN  /\ act_batch' = acts
           /\ venv' = r.venv
           /\ obs_batch' = r.obs
           /\ rew_batch' = r.rew
           /\ done_batch' = done
           /\ info_batch' = r.info
           /\ partial_trajectories' = st.accum
           /\ trajectories' = st.trajs
           /\ raised' = st.raised
           /\ pc' = IF st.raised = "none" THEN "loop" ELSE "raised"
  /\ venv_calls' = [venv_calls EXCEPT !.step = @ + 1]
  /\ calls' = calls \o LegacyWhileIteration
  /\ UNCHANGED << entry, n_timesteps, n_episodes, truncate, sample_until,
                  transitions >>
  /\ UNCHANGED otherVars

\* The loop of the earlier version ends: sanity checks, then return.
LegacyReturn ==
  /\ pc = "loop"
  /\ entry = "legacy.generate_trajectories"
  /\ rollout_done(sample_until, trajectories)
  /\ calls' = Append(calls, "rollout_done")
  /\ raised' = LegacySanityChecks(trajectories)
  /\ pc' = IF raised' # "none" THEN "raised" ELSE "done"
  /\ UNCHANGED << entry, n_timesteps, n_episodes, truncate, sample_until,
                  venv, venv_calls, obs_batch, act_batch, rew_batch,
                  done_batch, info_batch, partial_trajectories, trajectories,
                  transitions >>
  /\ UNCHANGED otherVars

LegacyNext ==
  \/ LegacyCall
  \/ Reset
  \/ LegacyStep
  \/ LegacyReturn

\* Both versions of generate_trajectories side by side, each called with
\* its n_timesteps and n_episodes.
CurrentInit == Init /\ entry = "make_sample_until"

CurrentNext ==
  \/ MakeSampleUntil
  \/ Reset
  \/ Step
  \/ Return

SpecVersions ==
  (CurrentInit \/ LegacyInit) /\ [][CurrentNext \/ LegacyNext]_vars

\* One more pass of the while loop, seen from the count of venv.step calls:
\* the predicate does not hold yet, so the body runs and steps once.
Iterate ==
  /\ pc = "loop"
  /\ ~SampleUntil(sample_until, trajectories)
  /\ venv_calls' = [venv_calls EXCEPT !.step = @ + 1]

\* The call is one sequential thread that nothing suspends: each of its
\* steps, once it can be taken, is taken.
SpecTermination ==
  /\ CurrentInit
  /\ [][CurrentNext]_vars
  /\ WF_vars(MakeSampleUntil)
  /\ WF_vars(Reset)
  /\ WF_venv_calls(Iterate)
  /\ WF_vars(Return)

\* ------------------------------- an environment that breaks the contract
\* The info records of a step in which the slots of omit, which are done,
\* lack the terminal observation.
WithoutTerminalObservation(info, omit) ==
  [s \in Slots |-> IF s \in omit THEN [step_of |-> info[s].step_of]
                   ELSE info[s]]

\* One iteration of the while loop over a vectorized environment that reports
\* done for some slot without putting the terminal observation in its info.
StepBrokenEnv ==
  /\ pc = "loop"
  /\ entry # "legacy.generate_trajectories"
  /\ ~SampleUntil(sample_until, trajectories)
  /\ \E done \in DoneBatches(venv) :
     \E omit \in SUBSET {s \in Slots : done[s]} :
       LET obs_old_batch == obs_batch
           acts == [s \in Slots |-> get_action(obs_old_batch[s])]
           r == VenvStep(venv, done)
           info == WithoutTerminalObservation(r.info, omit)
           st == ProcessSlots(0, [accum |-> partial_trajectories,
                                  trajs |-> trajectories,
                                  raised |-> "none"],
                              acts, r.obs, r.rew, done, info)
       IN  /\ omit # {}
           /\ act_batch' = acts
           /\ venv' = r.venv
           /\ obs_batch' = r.obs
           /\ rew_batch' = r.rew
           /\ done_batch' = done
           /\ info_batch' = info
           /\ partial_trajectories' = st.accum
           /\ trajectories' = st.trajs
           /\ raised' = st.raised
           /\ pc' = IF st.raised = "none" THEN "loop" ELSE "raised"
  /\ venv_calls' = [venv_calls EXCEPT !.step = @ + 1]
  /\ calls' = calls \o WhileIteration
  /\ UNCHANGED << entry, n_timesteps, n_episodes, truncate, sample_until,
                  transitions >>
  /\ UNCHANGED otherVars

\* generate_trajectories over an environment that may break the contract.
SpecBrokenEnv == CurrentInit /\ [][CurrentNext \/ StepBrokenEnv]_vars

\* ===================================================================
\* Properties
\* ===================================================================
\* generate_trajectories was called and has returned normally.
Returned ==
  /\ entry # "flatten_trajectories"
  /\ pc \in {"done", "flatten"}

\* Number of slots whose episode ended in the last batched step.
NumDoneLast == Cardinality({s \in Slots : done_batch[s]})

\* Index in trajectories of the trajectory finalized for slot s in the last
\* batched step (the for loop appends in ascending slot order).
FinalizedIdx(s) ==
  Len(trajectories) - Cardinality({u \in Slots : done_batch[u] /\ u > s})

\* Sum of the action counts of the first m trajectories.
ActCount(trajs, m) == SumSeq([i \in 1 .. m |-> Len(trajs[i].act)])

\* t is the record of one whole episode: it starts at the episode's first
\* observation, follows it step by step and ends at its terminal observation.
CompleteEpisode(t) ==
  /\ Len(t.obs) >= 2
  /\ \A i \in 1 .. Len(t.obs) :
       t.obs[i] = Obs(t.obs[1].slot, t.obs[1].ep, i - 1, i = Len(t.obs))

\* C1: every trajectory completed by generate_trajectories, under either
\* termination policy, has one more observation than actions, and as many
\* rewards and info records as actions; the sanity checks never fail.
C1_TrajectoryLengths ==
  entry # "flatten_trajectories" =>
    /\ \A i \in 1 .. Len(trajectories) :
         /\ Len(trajectories[i].obs) = Len(trajectories[i].act) + 1
         /\ Len(trajectories[i].rew) = Len(trajectories[i].act)
         /\ Len(trajectories[i].infos) = Len(trajectories[i].act)
    /\ venv_calls.reset > 0 =>
         raised \notin {"AssertionError", "TypeError", "KeyError"}

C1_Witness ==
  /\ entry = "make_sample_until"
  /\ pc = "done"
  /\ \E i, j \in 1 .. Len(trajectories) :
       Len(trajectories[i].act) = 1 /\ Len(trajectories[j].act) = MaxEpLen

\* C2: after a batched step in which slot s was done, the last observation
\* of the trajectory finalized for s is the terminal observation of that
\* step's info record and not the auto-reset observation the step returned;
\* the slot's next trajectory is seeded with, and when it is finalized starts
\* with, that auto-reset observation.
C2_TerminalObservation ==
  (/\ entry \notin {"flatten_trajectories", "RewardVecEnvWrapper"}
   /\ venv_calls.step > 0) =>
    /\ \A s \in Slots : done_batch[s] =>
         LET t == trajectories[FinalizedIdx(s)]
         IN  /\ t.obs[Len(t.obs)] = info_batch[s].terminal_observation
             /\ t.obs[Len(t.obs)] # obs_batch[s]
             /\ partial_trajectories[s] = << [obs |-> obs_batch[s]] >>
    /\ \A s \in Slots : partial_trajectories[s][1].obs.t = 0
    /\ \A i, j \in 1 .. Len(trajectories) :
         LET a == trajectories[i]
             b == trajectories[j]
         IN  (/\ i < j
              /\ a.obs[1].slot = b.obs[1].slot
              /\ b.obs[1].ep = a.obs[1].ep + 1)
             => b.obs[1] = Obs(a.obs[1].slot, a.obs[1].ep + 1, 0, FALSE)

C2_Witness ==
  /\ entry = "make_sample_until"
  /\ venv_calls.step > 0
  /\ done_batch[0]
  /\ ~done_batch[1]
  /\ \E i \in 1 .. Len(trajectories) :
       /\ i < FinalizedIdx(0)
       /\ trajectories[i].obs[1].slot = 0

\* C3: with min_timesteps(n), n > 0, the returned trajectories hold at least
\* n actions, each is a complete episode, and the trajectories completed
\* before the final batched step hold fewer than n actions.
C3_MinTimesteps ==
  (Returned /\ sample_until.kind = "min_timesteps" /\ sample_until.n > 0) =>
    /\ ActCount(trajectories, Len(trajectories)) >= sample_until.n
    /\ \A i \in 1 .. Len(trajectories) : CompleteEpisode(trajectories[i])
    /\ ActCount(trajectories, Len(trajectories) - NumDoneLast) < sample_until.n

C3_Witness ==
  /\ Returned
  /\ sample_until.kind = "min_timesteps"
  /\ sample_until.n = MaxN
  /\ ActCount(trajectories, Len(trajectories)) > sample_until.n + 1
  /\ Len(trajectories) - NumDoneLast > 0

\* C4: with min_episodes(n), n > 0, over NumEnvs slots, between n and
\* n - 1 + NumEnvs trajectories are returned, and fewer than n of them were
\* complete before the final batched step.
C4_MinEpisodes ==
  (Returned /\ sample_until.kind = "min_episodes" /\ sample_until.n > 0) =>
    /\ Len(trajectories) >= sample_until.n
    /\ Len(trajectories) <= sample_until.n - 1 + NumEnvs
    /\ Len(trajectories) - NumDoneLast < sample_until.n

C4_Witness ==
  /\ Returned
  /\ sample_until.kind = "min_episodes"
  /\ sample_until.n > 1
  /\ Len(trajectories) = sample_until.n - 1 + NumEnvs

\* The fields of a transition batch.
FieldLens(tr) ==
  {Len(tr.obs), Len(tr.act), Len(tr.next_obs), Len(tr.rew), Len(tr.done)}

\* flatten_trajectories has returned the whole flattened batch.
FlattenReturned ==
  /\ pc = "done"
  /\ \/ entry = "flatten_trajectories"
     \/ entry = "generate_transitions" /\ ~truncate

\* C5: the batch flatten_trajectories returns is the concatenation of the
\* per-step transitions in trajectory order and then step order: with o the
\* number of actions of the trajectories before t, entry o+i of obs, act,
\* next_obs and rew is t.obs[i], t.act[i], t.obs[i+1] and t.rew[i]; every
\* field has as many entries as there are actions in all trajectories.
C5_FlattenConcatenation ==
  FlattenReturned =>
    /\ \A j \in 1 .. Len(trajectories) :
         LET t == trajectories[j]
             o == ActCount(trajectories, j - 1)
         IN  \A i \in 1 .. Len(t.act) :
               /\ transitions.obs[o + i] = t.obs[i]
               /\ transitions.act[o + i] = t.act[i]
               /\ transitions.next_obs[o + i] = t.obs[i + 1]
               /\ transitions.rew[o + i] = t.rew[i]
    /\ FieldLens(transitions) = {ActCount(trajectories, Len(trajectories))}

C5_Witness ==
  /\ entry = "flatten_trajectories"
  /\ pc = "done"
  /\ Len(trajectories) = MaxTrajs
  /\ Len(trajectories[1].act) = 2
  /\ Len(trajectories[2].act) = 1
  /\ Len(transitions.obs) > 3

TransitionsReturned ==
  /\ entry = "generate_transitions"
  /\ pc = "done"

\* C7: the batch generate_transitions returns for n_timesteps = n has, with
\* truncate, exactly n entries in every field, which are the first n
\* transitions of the trajectories generated with min_timesteps(n) in
\* flattening order; without truncate every field has at least n entries.
C7_GenerateTransitions ==
  TransitionsReturned =>
    LET n == n_timesteps[1]
    IN  /\ truncate =>
             /\ FieldLens(transitions) = {n}
             /\ \A j \in 1 .. Len(trajectories) :
                  LET t == trajectories[j]
                      o == ActCount(trajectories, j - 1)
                  IN  \A i \in 1 .. Len(t.act) :
                        o + i <= n =>
                          /\ transitions.obs[o + i] = t.obs[i]
                          /\ transitions.act[o + i] = t.act[i]
                          /\ transitions.next_obs[o + i] = t.obs[i + 1]
                          /\ transitions.rew[o + i] = t.rew[i]
                          /\ transitions.done[o + i] = (i = Len(t.act))
        /\ ~truncate => \A len \in FieldLens(transitions) : len >= n

C7_Witness ==
  /\ TransitionsReturned
  /\ truncate
  /\ Len(trajectories) >= 2
  /\ ActCount(trajectories, Len(trajectories)) > n_timesteps[1] + 1

\* Trajectory j has at least one transition in the returned batch.
Contributing(j) == ActCount(trajectories, j - 1) < Len(transitions.done)

\* The done marks of trajectory j that are in the returned batch.
DoneOf(j) ==
  {i \in ActCount(trajectories, j - 1) + 1 ..
         Min2(ActCount(trajectories, j), Len(transitions.done)) :
     transitions.done[i]}

\* C8 as stated: in every batch generate_transitions returns, truncated or
\* not, each contributing trajectory has exactly one done = TRUE, at its last
\* transition.
C8_DoneInvariantAlways ==
  TransitionsReturned =>
    \A j \in 1 .. Len(trajectories) :
      Contributing(j) => DoneOf(j) = {ActCount(trajectories, j)}

\* C8 amended: without truncate each contributing trajectory has exactly one
\* done = TRUE, at its last transition; with truncate this holds for every
\* contributing trajectory but the last one, which has no done = TRUE when
\* the truncation cut its final transition off.
C8_DoneInvariantTruncated ==
  TransitionsReturned =>
    \A j \in 1 .. Len(trajectories) :
      Contributing(j) =>
        IF ActCount(trajectories, j) <= Len(transitions.done)
        THEN DoneOf(j) = {ActCount(trajectories, j)}
        ELSE /\ DoneOf(j) = {}
             /\ truncate
             /\ \A u \in j + 1 .. Len(trajectories) : ~Contributing(u)

C8_Witness ==
  /\ TransitionsReturned
  /\ truncate
  /\ Len(transitions.done) >= 2
  /\ transitions.done[1]
  /\ ~transitions.done[Len(transitions.done)]

NoVenvCall ==
  /\ venv_calls = [reset |-> 0, step |-> 0]
  /\ venv = [s \in Slots |-> [ep |-> 0, t |-> 0]]
  /\ trajectories = << >>

\* C9: once the termination policy has been selected, both arguments or
\* neither supplied has raised ValueError with the environment untouched;
\* exactly one positive argument has selected min_timesteps or min_episodes
\* with that value.
C9_ConfigurationErrors ==
  (entry = "make_sample_until" /\ pc # "call") =>
    /\ (IsNone(n_timesteps) = IsNone(n_episodes)) =>
         /\ pc = "raised"
         /\ raised = "ValueError"
         /\ NoVenvCall
    /\ (~IsNone(n_timesteps) /\ IsNone(n_episodes) /\ n_timesteps[1] > 0) =>
         /\ raised # "ValueError"
         /\ sample_until = [kind |-> "min_timesteps", n |-> n_timesteps[1]]
    /\ (IsNone(n_timesteps) /\ ~IsNone(n_episodes) /\ n_episodes[1] > 0) =>
         /\ raised # "ValueError"
         /\ sample_until = [kind |-> "min_episodes", n |-> n_episodes[1]]

C9_Witness ==
  /\ entry = "make_sample_until"
  /\ pc = "raised"
  /\ raised = "ValueError"
  /\ ~IsNone(n_timesteps)
  /\ ~IsNone(n_episodes)
  /\ n_timesteps[1] > 0
  /\ n_episodes[1] > 0

\* C10: make_sample_until raises ValueError when the supplied n_timesteps or
\* n_episodes is zero or negative.
C10_NonPositiveRaisesValueError ==
  (/\ entry = "make_sample_until"
   /\ pc # "call"
   /\ \/ ~IsNone(n_timesteps) /\ n_timesteps[1] <= 0
      \/ ~IsNone(n_episodes) /\ n_episodes[1] <= 0)
  => raised = "ValueError"

\* generate_trajectories, of either version, is what the behaviour runs.
Generating ==
  entry \in {"make_sample_until", "generate_transitions", "rollout.save",
             "legacy.generate_trajectories"}

\* In the last batched step the episode of slot s ended on its first step.
EndedOnFirstStep(s) ==
  /\ venv_calls.step > 0
  /\ done_batch[s]
  /\ act_batch[s].policy_on.t = 0

\* C11: no version of generate_trajectories ever completes a trajectory
\* without actions; in the version that does not record the step that ends
\* an episode, an episode that ends on its first step makes the call raise
\* ValueError.
C11_NoZeroActionTrajectory ==
  Generating =>
    /\ \A i \in 1 .. Len(trajectories) :
         /\ "act" \in DOMAIN trajectories[i]
         /\ Len(trajectories[i].act) >= 1
    /\ (/\ entry = "legacy.generate_trajectories"
        /\ \E s \in Slots : EndedOnFirstStep(s))
       => (pc = "raised" /\ raised = "ValueError")

C11_Witness ==
  /\ entry = "legacy.generate_trajectories"
  /\ pc = "raised"
  /\ raised = "ValueError"
  /\ EndedOnFirstStep(1)
  /\ ~done_batch[0]
  /\ Len(trajectories) > 0

\* In the last batched step slot s was reported done and its info record
\* lacked the terminal observation.
MissingKey(s) ==
  /\ venv_calls.step > 0
  /\ done_batch[s]
  /\ "terminal_observation" \notin DOMAIN info_batch[s]

\* C12: when the environment reports done for a slot without the terminal
\* observation, generate_trajectories ends with KeyError: nothing is
\* returned, the observation the step returned for that slot (the auto-reset
\* one) is recorded nowhere, and every completed trajectory still ends with a
\* terminal observation.
C12_MissingTerminalObservation ==
  \A s \in Slots : MissingKey(s) =>
    /\ pc = "raised"
    /\ raised = "KeyError"
    /\ \A i \in 1 .. Len(trajectories) :
         trajectories[i].obs[Len(trajectories[i].obs)].terminal
    /\ \A u \in Slots : \A k \in 1 .. Len(partial_trajectories[u]) :
         partial_trajectories[u][k].obs # obs_batch[s]
    /\ \A i \in 1 .. Len(trajectories) :
         \A k \in 1 .. Len(trajectories[i].obs) :
           trajectories[i].obs[k] # obs_batch[s]

C12_Witness ==
  /\ MissingKey(1)
  /\ done_batch[0]
  /\ ~MissingKey(0)
  /\ raised = "KeyError"
  /\ Len(trajectories) > 1

\* The file that holds the complete serialization of objs.
CompleteFile(objs) == File(pickle_dump(objs))

\* C13: at every step of data.save(path, trajectories), a crash included,
\* the file at path stays what it was or becomes the complete serialization
\* of trajectories; when data.save returns it is the complete serialization.
C13_AtomicSave ==
  [][entry = "data.save" =>
       /\ fs'[path] = fs[path] \/ fs'[path] = CompleteFile(data_trajs)
       /\ pc' = "done" => fs'[path] = CompleteFile(data_trajs)]_vars

C13_Witness ==
  /\ entry = "data.save"
  /\ pc = "crashed"
  /\ fs[path] = PrevFile
  /\ Len(fs[TmpOf(path)].data) = 2
  /\ Len(data_trajs) = 2

\* C14: while rollout.save(path, ...) runs, and after a crash, the file at
\* path is absent, the file an earlier save left, or the complete
\* serialization of the generated trajectories.
C14_AtomicRolloutSave ==
  entry = "rollout.save" =>
    fs[path] \in {Absent, PrevFile, CompleteFile(trajectories)}

Pickled == SubSeq(fs[path].data, 2, Len(fs[path].data) - 1)

IsCompletePickle ==
  /\ fs[path].exists
  /\ Len(fs[path].data) >= 2
  /\ fs[path].data[Len(fs[path].data)].op = "STOP"

\* Every record of the file is a rollout.Trajectory named tuple.
OlderSchema ==
  \A i \in 1 .. Len(Pickled) :
    Pickled[i].ref = "imitation.util.rollout.Trajectory"

\* Every record of the file is a TrajectoryWithRew.
CurrentSchema ==
  \A i \in 1 .. Len(Pickled) :
    Pickled[i].ref = "imitation.util.data.TrajectoryWithRew"

Selected == {ro_paths[i] : i \in 1 .. Len(ro_paths)}

\* The trajectories of the files of paths, joined in this order.
RECURSIVE Joined(_)
Joined(paths) ==
  IF paths = << >> THEN << >>
  ELSE FileTrajs(Head(paths).name) \o Joined(Tail(paths))

\* C17: load_trajectories(glob, max_n_files=N) reads exactly min(N, number
\* of matching files) files, none of them modified earlier than a matching
\* file it does not read, and every matching file when N is None; it returns
\* the trajectories of the files it read, joined.
C17_MostRecentFiles ==
  (entry = "load_trajectories" /\ pc = "loaded") =>
    LET want == IF IsNone(max_n_files) THEN Cardinality(Matching(fs))
                ELSE Min2(max_n_files[1], Cardinality(Matching(fs)))
    IN  /\ Selected \subseteq Matching(fs)
        /\ Len(ro_paths) = want
        /\ Cardinality(Selected) = want
        /\ \A a \in Selected : \A b \in Matching(fs) \ Selected :
             mtime[a] >= mtime[b]
        /\ loaded = Joined(ro_paths)

\* Four slots whose first episodes take 3, 5, 2 and 4 steps, after the third
\* batched step: slot 2 finished in the second step and is one step into its
\* next episode, slot 0 finished in the third, slots 1 and 3 are three steps
\* into their first episode.
ScenarioVenv ==
  [s \in 0 .. 3 |->
     CASE s = 0 -> [ep |-> 1, t |-> 0]
       [] s = 2 -> [ep |-> 1, t |-> 1]
       [] OTHER -> [ep |-> 0, t |-> 3]]

ScenarioAfterThirdStep ==
  /\ entry = "make_sample_until"
  /\ sample_until = [kind |-> "min_episodes", n |-> 2]
  /\ venv_calls.step = 3
  /\ venv = ScenarioVenv

\* What the accumulator holds for a slot that is k steps into its first
\* episode: the seed record and one record per step.
InProgress(s, k) ==
  [i \in 1 .. k + 1 |->
     IF i = 1 THEN [obs |-> Obs(s, 0, 0, FALSE)]
     ELSE [act |-> get_action(Obs(s, 0, i - 2, FALSE)),
           rew |-> Rew(s, 0, i - 1),
           obs |-> Obs(s, 0, i - 1, FALSE),
           infos |-> Info(s, 0, i - 1, FALSE)]]

\* C18: with 4 slots, first episodes of 3, 5, 2 and 4 steps and
\* min_episodes(2), after the third batched step there are exactly two
\* trajectories, of 2 and of 3 actions, the accumulator holds the records of
\* the unfinished slots 1 and 3 as they were added, and the next thing that
\* happens is the return: no further step, trajectories and accumulator
\* untouched.
C18_FourSlotScenario ==
  [][(ScenarioAfterThirdStep /\ pc = "loop") =>
       /\ Len(trajectories) = 2
       /\ Len(trajectories[1].act) = 2
       /\ Len(trajectories[2].act) = 3
       /\ trajectories[1].obs[1].slot = 2
       /\ trajectories[2].obs[1].slot = 0
       /\ partial_trajectories[1] = InProgress(1, 3)
       /\ partial_trajectories[3] = InProgress(3, 3)
       /\ pc' = "done"
       /\ raised' = "none"
       /\ venv_calls' = venv_calls
       /\ trajectories' = trajectories
       /\ partial_trajectories' = partial_trajectories]_vars

C18_Witness ==
  /\ ScenarioAfterThirdStep
  /\ pc = "done"
  /\ Len(trajectories) = 2
  /\ Len(partial_trajectories[1]) = 4

\* C19: when the function wrapped by redirect_to_files raises, the traceback
\* is written to the stream that was sys.stderr before the call, whether or
\* not stderr_path is given, and the exception leaves the wrapper.
C19_TracebackOnOriginalStderr ==
  (entry = "redirect_to_files" /\ raised = "Exception") =>
    /\ pc \in {"unwind", "raised"}
    /\ \E i \in 1 .. Len(streams["stderr"]) :
         streams["stderr"][i] = "traceback"

\* Number of complete passes over the data loader that were yielded.
CompletePasses == batch_num \div loader_len

\* C20: when the iterator has returned, on_epoch_end was called once for
\* every complete pass over the data loader, in either mode, and in n_epochs
\* mode n_epochs times.
C20_EpochEndEveryEpoch ==
  (entry = "EpochOrBatchIteratorWithProgress" /\ pc = "done") =>
    /\ loader_len > 0 => epoch_end_calls = CompletePasses
    /\ use_epochs => epoch_end_calls = n_epochs[1]

\* The count the iterator was asked for: n_epochs or n_batches.
Requested == IF use_epochs THEN n_epochs[1] ELSE n_batches[1]

\* C21: the iterator over a finite data loader returns after it has yielded
\* n_batches batches in n_batches mode, and loader_len batches for each of
\* n_epochs passes in n_epochs mode; it starts no more passes than the count
\* it was asked for, so that the iteration ends.
C21_YieldsRequestedCount ==
  (entry = "EpochOrBatchIteratorWithProgress" /\ pc \in {"iterating", "done"})
  => /\ pc = "done" =>
          batch_num = IF use_epochs THEN n_epochs[1] * loader_len
                      ELSE n_batches[1]
     /\ epoch_num <= Requested

\* The current version of generate_trajectories runs, and has reset the
\* environment.
InRollout ==
  /\ entry \in {"make_sample_until", "generate_transitions", "rollout.save"}
  /\ venv_calls.reset > 0

\* seq, k times over.
RECURSIVE Repeat(_, _)
Repeat(seq, k) == IF k <= 0 THEN << >> ELSE seq \o Repeat(seq, k - 1)

\* Number of step records of slot s: those of its completed trajectories and
\* those of its pending list.
StepRecords(s) ==
  SumSeq([i \in 1 .. Len(trajectories) |->
            IF trajectories[i].obs[1].slot = s THEN Len(trajectories[i].act)
            ELSE 0])
  + Cardinality({k \in 1 .. Len(partial_trajectories[s]) :
                   "act" \in DOMAIN partial_trajectories[s][k]})

\* C22: generate_trajectories resets once, and then every iteration of its
\* loop evaluates the termination predicate, queries the policy once and
\* steps the environment once, in this order; the predicate is evaluated once
\* more when the loop ends.  After k iterations every slot has k step records.
C22_LockstepIterations ==
  InRollout =>
    /\ calls = << "venv.reset" >>
               \o Repeat(<< "sample_until", "get_action", "venv.step" >>,
                         venv_calls.step)
               \o (IF pc = "loop" THEN << >> ELSE << "sample_until" >>)
    /\ \A s \in Slots : StepRecords(s) = venv_calls.step

C22_Witness ==
  /\ entry = "make_sample_until"
  /\ pc = "done"
  /\ venv_calls.step >= 3
  /\ partial_trajectories[0] = InProgress(0, venv_calls.step)
  /\ \E i, j \in 1 .. Len(trajectories) :
       /\ i < j
       /\ trajectories[i].obs[1].slot = 1
       /\ trajectories[j].obs[1].slot = 1

\* The shape of a pending list: an observation-only record, then records
\* with an action, a reward, an observation and an info record.
WellFormedPending(part_dicts) ==
  /\ Len(part_dicts) >= 1
  /\ DOMAIN part_dicts[1] = {"obs"}
  /\ \A k \in 2 .. Len(part_dicts) :
       DOMAIN part_dicts[k] = {"act", "rew", "obs", "infos"}

\* C23: between the iterations of the loop of generate_trajectories, and
\* after it, every slot's pending list is well formed; the pending list of a
\* slot whose trajectory was completed in the last batched step is the single
\* observation-only record of the observation that step returned.
C23_PendingListShape ==
  InRollout =>
    /\ \A s \in Slots : WellFormedPending(partial_trajectories[s])
    /\ \A s \in Slots : (venv_calls.step > 0 /\ done_batch[s]) =>
         partial_trajectories[s] = << [obs |-> obs_batch[s]] >>

C23_Witness ==
  /\ entry = "make_sample_until"
  /\ pc = "loop"
  /\ done_batch[0]
  /\ venv[0].ep = 2
  /\ Len(partial_trajectories[0]) = 1
  /\ Len(partial_trajectories[1]) = MaxEpLen
  /\ Len(partial_trajectories[2]) = 2

\* Calls are made on an accumulator of its own.
OnAccumulator ==
  entry \in {"_TrajectoryAccumulator", "legacy._TrajectoryAccumulator"}

\* The values the records hold under key, in the order of the records.
RECURSIVE ValuesOf(_, _)
ValuesOf(records, key) ==
  IF records = << >> THEN << >>
  ELSE (IF key \in DOMAIN Head(records) THEN << Head(records)[key] >>
        ELSE << >>) \o ValuesOf(Tail(records), key)

\* C24: a call of add_step(idx, record) or finish_trajectory(idx) leaves the
\* pending list of every other idx as it was; add_step appends the record to
\* the list of idx; finish_trajectory empties the list of idx and, when it
\* returns, returns under every key the values of the records added for idx
\* since idx was last finished, in the order they were added.
C24_NoSlotConflation ==
  [][OnAccumulator =>
       LET idx == last_call'.idx
           since == added_since[idx].records
       IN  /\ \A s \in Slots \ {idx} :
                partial_trajectories'[s] = partial_trajectories[s]
           /\ \A s \in Slots :
                partial_trajectories'[s] = added_since'[s].records
           /\ last_call'.method = "add_step" =>
                /\ Len(partial_trajectories'[idx]) = Len(since) + 1
                /\ SubSeq(partial_trajectories'[idx], 1, Len(since)) = since
           /\ last_call'.method = "finish_trajectory" =>
                /\ partial_trajectories'[idx] = << >>
                /\ raised' = "none" =>
                     \A key \in DOMAIN returned_traj' :
                       returned_traj'[key] = ValuesOf(since, key)]_vars

C24_Witness ==
  /\ entry = "_TrajectoryAccumulator"
  /\ raised = "none"
  /\ last_call = [method |-> "finish_trajectory", idx |-> 1]
  /\ Len(returned_traj.obs) = 2
  /\ Len(returned_traj.act) = 1
  /\ Len(partial_trajectories[0]) = 1
  /\ partial_trajectories[1] = << >>

\* C25: a call of finish_trajectory(idx) while idx has no pending record
\* ends with an exception, in either version of the accumulator; it returns
\* nothing.
C25_FinishWithoutRecordsFails ==
  [][(/\ OnAccumulator
      /\ last_call'.method = "finish_trajectory"
      /\ partial_trajectories[last_call'.idx] = << >>)
     => (/\ raised' # "none"
         /\ pc' = "raised"
         /\ returned_traj' = returned_traj)]_vars

\* Calls are made on a RewardVecEnvWrapper.
OnWrapper == entry = "RewardVecEnvWrapper"

EpisodeReturn(e) ==
  [i \in 1 .. e.len |->
     reward_of(Obs(e.slot, e.ep, i - 1, FALSE),
               get_action(Obs(e.slot, e.ep, i - 1, FALSE)),
               Obs(e.slot, e.ep, i, i = e.len),
               i - 1)]

\* C27: after any calls of reset and step, episode_rewards holds the returns
\* of the last ep_history episodes that ended (of all of them while they are
\* fewer), in the order they ended, and each return is the sum of the
\* reward_fn rewards of the steps of that episode and of nothing else.
C27_EpisodeRewards ==
  OnWrapper =>
    LET n == Len(finished_episodes)
        k == Min2(ep_history, n)
    IN  /\ Len(episode_rewards) = k
        /\ \A i \in 1 .. k :
             episode_rewards[i] = EpisodeReturn(finished_episodes[n - k + i])

\* Two data.save calls run at once.
SavingAtOnce == entry = "data.save || data.save"

\* C28: while two data.save calls on two different paths run at once, in
\* any interleaving of their steps, the file at the path of each call is
\* absent, the earlier save, or the complete serialization of that call's
\* trajectories; when both calls have returned it is the complete
\* serialization of that call's trajectories.
C28_NoLockingNeeded ==
  SavingAtOnce =>
    \A i \in Savers :
      /\ fs[save_path[i]] \in {Absent, PrevFile, CompleteFile(save_trajs[i])}
      /\ (\A j \in Savers : save_pc[j] = "done") =>
           fs[save_path[i]] = CompleteFile(save_trajs[i])

\* The completed trajectories are enough for the count that was asked for.
EnoughCollected ==
  /\ pc = "loop"
  /\ \/ /\ sample_until.kind = "min_episodes"
        /\ Len(trajectories) >= sample_until.n
     \/ /\ sample_until.kind = "min_timesteps"
        /\ ActCount(trajectories, Len(trajectories)) >= sample_until.n

\* C29: over an environment all of whose episodes end, a call of
\* generate_trajectories with min_episodes(n) or min_timesteps(n) that has
\* started returns; and once the completed trajectories are enough, the
\* environment is not stepped again.
C29_TerminatesWithoutExtraStep ==
  /\ (pc = "reset") ~> (pc = "done")
  /\ [][EnoughCollected => venv_calls' = venv_calls]_vars

C29_Witness ==
  /\ entry = "make_sample_until"
  /\ pc = "done"
  /\ sample_until = [kind |-> "min_episodes", n |-> MaxN]
  /\ venv_calls.step = MaxEpLen
  /\ Len(trajectories) = NumEnvs

\* Slot and episode of the i-th returned trajectory, read off its first
\* observation.
SlotOf(i) == trajectories[i].obs[1].slot
EpOf(i) == trajectories[i].obs[1].ep

\* The batched step at which the i-th returned trajectory was finished: the
\* slots step together, so it is the number of steps of its slot in the
\* episodes up to and including its own.
FinishedAt(i) ==
  SumSeq([j \in 1 .. Len(trajectories) |->
            IF SlotOf(j) = SlotOf(i) /\ EpOf(j) <= EpOf(i)
            THEN Len(trajectories[j].act) ELSE 0])

\* C30: the trajectories of generate_trajectories are in completion order:
\* one finished at an earlier batched step comes first, those finished at the
\* same step are in ascending order of slot, and the trajectories of one slot
\* are in the order of its episodes.
C30_CompletionOrder ==
  InRollout =>
    \A i, j \in 1 .. Len(trajectories) :
      i < j =>
        /\ FinishedAt(i) <= FinishedAt(j)
        /\ FinishedAt(i) = FinishedAt(j) => SlotOf(i) < SlotOf(j)
        /\ SlotOf(i) = SlotOf(j) => EpOf(i) < EpOf(j)

C30_Witness ==
  /\ InRollout
  /\ pc = "done"
  /\ Len(trajectories) = 3
  /\ SlotOf(1) = 0 /\ SlotOf(2) = 0 /\ SlotOf(3) = NumEnvs - 1
  /\ FinishedAt(1) < FinishedAt(2)
  /\ FinishedAt(2) = FinishedAt(3)

====
